---- MODULE Spec2Model ----
(***************************************************************************)
(* Snapshot / diff / package / apply engine of updater_zero.              *)
(*                                                                         *)
(* A path is a sequence of segments.  A location is a resolved path: a     *)
(* location whose first segment is ".." lies outside the installation      *)
(* root.  The file system maps every location of a bounded universe to     *)
(* <<"absent">>, <<"dir">> or <<"file", c>> with c the content.              *)
(* Content 2*v is the text "v", content 2*v+1 is the text "v\n"; both      *)
(* read back (strip) as version v.                                         *)
(***************************************************************************)
EXTENDS Integers, Sequences, FiniteSets, TLC

\* ------------------------------------------------------------------ bounds
MaxVersion == 2      \* versions are 0 (none), 1..MaxVersion
MaxPkgs == 2         \* packages handed to one driver run
MaxEntries == 2      \* payload entries of a hand-made package
MaxUpdates == 3      \* update rules of one document
MaxRuns == 2         \* runs of the snapshooter, and seconds on its clock

\* ------------------------------------------------------- program constants
max_retries == 2

Versions == 1..MaxVersion

Deps == <<"dep1", "dep2">>

Range(q) == {q[i] : i \in 1..Len(q)}
Contents == 0..(2 * MaxVersion + 1)

\* ------------------------------------------------------------------- paths
VERSION_FILE == <<"version">>
METADATA_NAME == <<"update_metadata.json">>
REQ_FILE == <<"temp_requirements_update.txt">>
INSTALL_SCRIPT == <<"install_vk_server.sh.sh">>

SnapSegs == <<"snapshot_1.json", "snapshot_2.json", "snapshot_3.json", "snapshot_4.json">>
SnapshotName(v) == <<SnapSegs[v]>>
DEFAULT_SNAPSHOT == <<"snapshot_.json">>

PD == <<"d">>
PDF == <<"d", "f">>
PDG == <<"d", "g">>
PHidden == <<".h">>
PE == <<"e">>
PEscape == <<"..", "e">>
PGit == <<".git">>
PGitF == <<".git", "f">>
PUpd == <<"update_old">>
PUpdF == <<"update_old", "f">>
PCfg == <<"config.json">>
Root == <<>>
Outside == <<"..">>

Locs == {VERSION_FILE, PD, PDF, PHidden, PE, PEscape, REQ_FILE, INSTALL_SCRIPT, METADATA_NAME,
         PGit, PGitF, PUpd, PUpdF, PCfg, PDG}
          \cup {SnapshotName(v) : v \in Versions}

Absent == <<"absent">>
Dir == <<"dir">>
File(c) == <<"file", c>>

\* os.path.abspath / Path.resolve of a path relative to the root: ".." pops a
\* segment, and climbs above the root when nothing is left to pop.
RECURSIVE ResolveOnto(_, _)
ResolveOnto(acc, p) ==
    IF p = <<>> THEN acc
    ELSE IF Head(p) = ".."
         THEN IF acc = <<>> \/ acc[Len(acc)] = ".."
              THEN ResolveOnto(Append(acc, ".."), Tail(p))
              ELSE ResolveOnto(SubSeq(acc, 1, Len(acc) - 1), Tail(p))
         ELSE IF Head(p) = "."
              THEN ResolveOnto(acc, Tail(p))
              ELSE ResolveOnto(Append(acc, Head(p)), Tail(p))

Resolve(p) == ResolveOnto(<<>>, p)

\* zipfile's extract builds the destination from the entry name with the "",
\* "." and ".." components dropped.
RECURSIVE Sanitize(_)
Sanitize(p) ==
    IF p = <<>> THEN <<>>
    ELSE IF Head(p) \in {"", ".", ".."}
         THEN Sanitize(Tail(p))
         ELSE <<Head(p)>> \o Sanitize(Tail(p))

Parent(l) == SubSeq(l, 1, Len(l) - 1)

IsPrefix(d, l) == Len(d) <= Len(l) /\ SubSeq(l, 1, Len(d)) = d

IsOutside(l) == Len(l) > 0 /\ l[1] = ".."

\* target.relative_to(Path.cwd()) succeeds
InsideRoot(l) == ~IsOutside(l)

HasDotDot(p) == \E i \in 1..Len(p) : p[i] = ".."

\* any(part.startswith('.') and part not in ('.', '..') for part in parts)
HiddenSegs == {".h"}
IsHidden(p) == \E i \in 1..Len(p) : p[i] \in HiddenSegs

\* ------------------------------------------------------------- file system
AlwaysDir(l) == l = Root \/ l = Outside

IsDirAt(f, l) == AlwaysDir(l) \/ (l \in Locs /\ f[l] = Dir)
IsFileAt(f, l) == l \in Locs /\ f[l][1] = "file"
ExistsAt(f, l) == IsDirAt(f, l) \/ IsFileAt(f, l)

Ancestors(l) == {SubSeq(l, 1, n) : n \in 0..(Len(l) - 1)}

\* os.makedirs(l, exist_ok=True) / Path.mkdir(parents=True, exist_ok=True):
\* raises when l or one of its ancestors exists as a file.
MakedirsFails(f, l) == \E a \in Ancestors(l) \cup {l} : IsFileAt(f, a)
Makedirs(f, l) ==
    [m \in Locs |-> IF (m = l \/ m \in Ancestors(l)) /\ f[m] = Absent THEN Dir ELSE f[m]]

RemoveAll(f, S) ==
    [m \in Locs |-> IF \E l \in S : IsPrefix(l, m) THEN Absent ELSE f[m]]

Children(f, d) == {l \in Locs : Len(l) = Len(d) + 1 /\ IsPrefix(d, l) /\ f[l] # Absent}

HasLocked(f, lk, l) == \E m \in Locs : IsPrefix(l, m) /\ m \in lk /\ f[m] # Absent

\* shutil.rmtree(d, onerror=handle_remove_readonly): entries are removed in the
\* directory's scan order; the handler retries the failed removal and raises when
\* the retry fails too, which ends the walk.  An entry that cannot be removed (a
\* member of lk) therefore leaves any subset of its siblings removed.
RECURSIVE RmtreeOutcomes(_, _, _)
RmtreeOutcomes(f, lk, d) ==
    IF ~HasLocked(f, lk, d)
    THEN {[fs |-> RemoveAll(f, {d}), ok |-> TRUE]}
    ELSE LET clean == {c \in Children(f, d) : ~HasLocked(f, lk, c)}
             dirty == {c \in Children(f, d) : HasLocked(f, lk, c)}
         IN  UNION { UNION { IF IsDirAt(RemoveAll(f, S), c)
                             THEN {[fs |-> o.fs, ok |-> FALSE] :
                                     o \in RmtreeOutcomes(RemoveAll(f, S), lk, c)}
                             ELSE {[fs |-> RemoveAll(f, S), ok |-> FALSE]}
                             : c \in dirty }
                     : S \in SUBSET clean }

\* The retry of a failed os.remove: rmtree of the parent directory.  The cli and
\* Qt variants let its exception out; the server variant logs it and returns.
RetrySwallowed(v) == v = "server"

force_remove(v, f, lk, path) ==
    IF IsFileAt(f, path)
    THEN IF path \notin lk
         THEN {[fs |-> RemoveAll(f, {path}), ok |-> TRUE]}
         ELSE {[fs |-> o.fs, ok |-> o.ok \/ RetrySwallowed(v)] :
                 o \in RmtreeOutcomes(f, lk, Parent(path))}
    ELSE IF IsDirAt(f, path) /\ path \in Locs
         THEN RmtreeOutcomes(f, lk, path)
         ELSE {[fs |-> f, ok |-> TRUE]}

\* zipf.extract(zip_info, path=cwd) of a file entry: the destination is the
\* sanitized name under the root; missing parents are created; the bytes replace
\* an existing file.
ExtractFails(f, lk, name) ==
    LET dest == Sanitize(name)
    IN  \/ MakedirsFails(f, Parent(dest))
        \/ IsDirAt(f, dest)
        \/ (IsFileAt(f, dest) /\ dest \in lk)

ZipExtract(f, name, content) ==
    LET dest == Sanitize(name)
    IN  [Makedirs(f, Parent(dest)) EXCEPT ![dest] = File(content)]

\* ---------------------------------------------------------------- versions
\* f.write(to_version + '\n') and f.read().strip()
WithNewline(v) == 2 * v + 1
Plain(v) == 2 * v
Strip(c) == c \div 2

\* get_current_version: the stripped text of the marker, "0.0.0" / 0 without one
MarkerValue(f) == IF IsFileAt(f, VERSION_FILE) THEN Strip(f[VERSION_FILE][2]) ELSE 0

\* ------------------------------------------------------------------- state
VARIABLES
    variant,        \* the applier: "cli" (apply_update.py), "server", "qt"
    driver,         \* the chain driver: "main", "tk" (UpdaterApp), "qt" (UpdaterWidget)
    chain,          \* the versions of the packages of the chain, in order
    present,        \* versions whose package file exists on disk
    P,              \* metadata and payload shared by the package files
    devA,           \* build machine: the tree the baseline snapshot was taken of
    devB,           \* build machine: the tree at the time of the build
    full,           \* build machine: the --full flag
    fs,             \* the file system
    locked,         \* files whose removal and rewriting fail
    pc,             \* position of the driver
    zip_files,      \* the package list handed to main / pending_updates
    idx,            \* index of the package being processed
    snapshot_file,  \* the global set by main
    phase,          \* state of the apply of the current package
    k,              \* index of the next item of the phase
    exit_code,      \* exit status of the apply command, -1 while running
    installed,      \* dependencies pip installed
    retry_count,    \* update_info["retry_count"] per pending update
    started,        \* history: versions whose apply began
    marker_before,  \* history: marker node when the current apply began
    written,        \* history: entry names whose bytes the current apply wrote
    results,        \* history: version, outcome and file system of each finished apply
    failed_in,      \* history: the phase in which the current apply failed
    marker_initial, \* history: marker node before the driver started
    current_version,\* updater: the text of the marker read at start-up
    paragraphs,     \* updater: the paragraphs of the downloaded document
    version_map,    \* UpdateWorker: the items of the downloaded update.json
    updates,        \* updater: the parsed rules, as parse_versions_docx returns them
    latest_version, \* updater: what get_latest_version returned
    curr,           \* get_updates_chain: the version reached so far
    vanished,       \* build: the files removed between the snapshot and the archive
    pip_failed,     \* history: dependencies whose installation failed in the current apply
    snapshots,      \* build: the documents of _snapshots/
    backups,        \* build: the documents of _snapshots_backup/
    clock,          \* build: the second and the instant of the build machine
    runs,           \* build: runs of the snapshooter started
    persisted,      \* history: every document a capture has written
    call_dir,       \* history: _snapshots/ when create_update_package was called
    baseline        \* history: the document the last package was diffed against

vars == <<variant, driver, chain, present, P, devA, devB, full, fs, locked, pc, zip_files, idx,
          snapshot_file, phase, k, exit_code, installed, retry_count,
          started, marker_before, written, results, failed_in, marker_initial,
          current_version, paragraphs, version_map, updates, latest_version, curr,
          vanished,
          pip_failed, snapshots, backups, clock, runs, persisted, call_dir, baseline>>

resolver == <<current_version, paragraphs, version_map, updates, latest_version, curr>>

capture == <<snapshots, backups, clock, runs, persisted, call_dir, baseline>>

inputs == <<variant, driver, chain, P, devA, devB, full, locked, marker_initial, resolver,
            vanished, capture>>
history == <<started, marker_before, written, results, pip_failed>>

\* ----------------------------------------------------------------- package
Entry(n, d, c) == [name |-> n, dir |-> d, content |-> c]

\* Archive layout of create_update_package: the snapshot document, the payload,
\* the metadata document.
Package(v) ==
    [to_version |-> v,
     deleted_files |-> P.deleted_files,
     deleted_dirs |-> P.deleted_dirs,
     added_dirs |-> P.added_dirs,
     new_pip |-> P.new_pip,
     entries |-> <<Entry(SnapshotName(v), FALSE, 0)>> \o P.payload
                   \o <<Entry(METADATA_NAME, FALSE, 0)>>]

Cur == zip_files[idx]
Pkg == Package(Cur)

\* the two loops of PHASE 1 have the same body
DeletionList(p) == p.deleted_files \o p.deleted_dirs

\* PHASE 4: the cli variant runs pip once over the requirements file, the server
\* variant once per dependency, the Qt variant has no such phase.
DepList(v, p) ==
    IF v = "cli" THEN (IF p.new_pip # <<>> THEN <<p.new_pip>> ELSE <<>>)
    ELSE IF v = "server" THEN [i \in 1..Len(p.new_pip) |-> <<p.new_pip[i]>>]
    ELSE <<>>

PhaseLen(v, p, ph) ==
    IF ph = "Deleting" THEN Len(DeletionList(p))
    ELSE IF ph = "Extracting" THEN Len(p.entries)
    ELSE IF ph = "RecreatingDirs" THEN Len(p.added_dirs)
    ELSE IF ph = "ReconcilingDependencies" THEN Len(DepList(v, p))
    ELSE 1

\* the directory phase left out of the sequence
NextPhaseSkipping(ph) ==
    IF ph = "Deleting" THEN "Extracting"
    ELSE IF ph = "Extracting" THEN "ReconcilingDependencies"
    ELSE IF ph = "ReconcilingDependencies" THEN "CommittingVersion"
    ELSE "Done"

NextPhase(ph) ==
    IF ph = "Deleting" THEN "Extracting"
    ELSE IF ph = "Extracting" THEN "RecreatingDirs"
    ELSE IF ph = "RecreatingDirs" THEN "ReconcilingDependencies"
    ELSE IF ph = "ReconcilingDependencies" THEN "CommittingVersion"
    ELSE "Done"

\* ---------------------------------------------------------- PHASE 2 bodies
Okay(f, w) == [fs |-> f, ok |-> TRUE, wrote |-> w]
Fail(f) == [fs |-> f, ok |-> FALSE, wrote |-> FALSE]

RemoveExisting(v, f, lk, target) ==
    IF ExistsAt(f, target) THEN force_remove(v, f, lk, target)
    ELSE {[fs |-> f, ok |-> TRUE]}

WriteEntry(f, lk, e) ==
    IF ExtractFails(f, lk, e.name) THEN Fail(f)
    ELSE Okay(ZipExtract(f, e.name, e.content), TRUE)

MakeDirEntry(f, target) ==
    IF MakedirsFails(f, target) THEN Fail(f) ELSE Okay(Makedirs(f, target), FALSE)

ExtractCli(f, lk, e) ==
    LET target == Resolve(e.name)
    IN  IF e.dir THEN {MakeDirEntry(f, target)}
        ELSE IF MakedirsFails(f, Parent(target)) THEN {Fail(f)}
        ELSE {IF o.ok THEN WriteEntry(o.fs, lk, e) ELSE Fail(o.fs) :
                o \in RemoveExisting("cli", Makedirs(f, Parent(target)), lk, target)}

ExtractServer(f, lk, e) ==
    LET target == Resolve(e.name)
    IN  IF e.dir THEN {MakeDirEntry(f, target)}
        ELSE {IF ~o.ok THEN Fail(o.fs)
              ELSE IF MakedirsFails(o.fs, Parent(target)) THEN Fail(o.fs)
              ELSE WriteEntry(Makedirs(o.fs, Parent(target)), lk, e) :
                o \in RemoveExisting("server", f, lk, target)}

ExtractQt(f, lk, e) ==
    LET target == Resolve(e.name)
    IN  IF IsHidden(e.name) THEN {Okay(f, FALSE)}
        ELSE IF ~InsideRoot(target) THEN {Okay(f, FALSE)}
        ELSE IF e.dir THEN {Okay(f, FALSE)}
        ELSE {IF ~o.ok THEN Fail(o.fs)
              ELSE IF MakedirsFails(o.fs, Parent(target)) THEN Fail(o.fs)
              ELSE WriteEntry(Makedirs(o.fs, Parent(target)), lk, e) :
                o \in RemoveExisting("qt", f, lk, target)}

ExtractOutcomes(v, f, lk, e) ==
    IF v = "cli" THEN ExtractCli(f, lk, e)
    ELSE IF v = "server" THEN ExtractServer(f, lk, e)
    ELSE ExtractQt(f, lk, e)

\* the reserved names the extraction loop skips
SkipNames(v, snap, own) ==
    IF v = "qt" THEN {METADATA_NAME, own}
    ELSE {METADATA_NAME, <<snap[Len(snap)]>>}

\* ------------------------------------------------------------ apply_update
FirstFour == {"Deleting", "Extracting", "RecreatingDirs", "ReconcilingDependencies"}

\* entry of apply_update / on_zip_downloaded: the package is opened and its
\* metadata read
BeginApply ==
    /\ phase' = "Deleting"
    /\ k' = 1
    /\ marker_before' = fs[VERSION_FILE]
    /\ started' = Append(started, Cur)
    /\ written' = {}
    /\ pip_failed' = {}
    /\ failed_in' = "none"

\* an exception leaves the phase it was raised in
NoteFailure == failed_in' = IF phase' = "Failed" THEN phase ELSE failed_in

\* PHASE 1: one path of deleted_files, then of deleted_dirs
DeleteStep ==
    /\ pc = "apply" /\ phase = "Deleting" /\ k <= Len(DeletionList(Pkg))
    /\ \E o \in RemoveExisting(variant, fs, locked, Resolve(DeletionList(Pkg)[k])) :
          /\ fs' = o.fs
          /\ IF o.ok THEN phase' = phase /\ k' = k + 1
                     ELSE phase' = "Failed" /\ k' = k
    /\ NoteFailure
    /\ UNCHANGED <<inputs, present, pc, zip_files, idx, snapshot_file, exit_code,
                   installed, retry_count, history>>

\* PHASE 2: one entry of zipf.infolist()
ExtractStep ==
    /\ pc = "apply" /\ phase = "Extracting" /\ k <= Len(Pkg.entries)
    /\ LET e == Pkg.entries[k]
       IN  IF e.name \in SkipNames(variant, snapshot_file, SnapshotName(Cur))
           THEN /\ k' = k + 1
                /\ UNCHANGED <<fs, phase, written>>
           ELSE \E o \in ExtractOutcomes(variant, fs, locked, e) :
                   /\ fs' = o.fs
                   /\ written' = IF o.wrote THEN written \cup {e.name} ELSE written
                   /\ IF o.ok THEN phase' = phase /\ k' = k + 1
                              ELSE phase' = "Failed" /\ k' = k
    /\ NoteFailure
    /\ UNCHANGED <<inputs, present, pc, zip_files, idx, snapshot_file, exit_code,
                   installed, retry_count, started, marker_before, results, pip_failed>>

\* PHASE 3: one path of added_dirs
RecreateStep ==
    /\ pc = "apply" /\ phase = "RecreatingDirs" /\ k <= Len(Pkg.added_dirs)
    /\ LET target == Resolve(Pkg.added_dirs[k])
       IN  IF MakedirsFails(fs, target)
           THEN phase' = "Failed" /\ k' = k /\ fs' = fs
           ELSE phase' = phase /\ k' = k + 1 /\ fs' = Makedirs(fs, target)
    /\ NoteFailure
    /\ UNCHANGED <<inputs, present, pc, zip_files, idx, snapshot_file, exit_code,
                   installed, retry_count, history>>

\* PHASE 4, cli: the requirements file is written, pip runs once over it and
\* the file is removed again; a failed pip run is re-raised.
ReconcileCli ==
    /\ pc = "apply" /\ phase = "ReconcilingDependencies" /\ variant = "cli"
    /\ k <= Len(DepList(variant, Pkg))
    /\ IF IsDirAt(fs, REQ_FILE)
       THEN phase' = "Failed" /\ k' = k /\ UNCHANGED <<fs, installed, pip_failed>>
       ELSE /\ fs' = [fs EXCEPT ![REQ_FILE] = Absent]
            /\ \E pip_ok \in BOOLEAN :
                  IF pip_ok
                  THEN /\ installed' = installed \cup {Pkg.new_pip[i] : i \in 1..Len(Pkg.new_pip)}
                       /\ phase' = phase /\ k' = k + 1
                       /\ pip_failed' = pip_failed
                  ELSE /\ installed' = installed
                       /\ phase' = "Failed" /\ k' = k
                       /\ \E d \in Range(Pkg.new_pip) : pip_failed' = pip_failed \cup {d}
    /\ NoteFailure
    /\ UNCHANGED <<inputs, present, pc, zip_files, idx, snapshot_file, exit_code,
                   retry_count, started, marker_before, written, results>>

\* PHASE 4, server: the requirements are logged to a file that stays, then one
\* pip run per dependency; a failed run is logged and the loop goes on.
ReconcileServer ==
    /\ pc = "apply" /\ phase = "ReconcilingDependencies" /\ variant = "server"
    /\ k <= Len(DepList(variant, Pkg))
    /\ IF k = 1 /\ IsDirAt(fs, REQ_FILE)
       THEN phase' = "Failed" /\ k' = k /\ UNCHANGED <<fs, installed, pip_failed>>
       ELSE /\ fs' = IF k = 1 THEN [fs EXCEPT ![REQ_FILE] = File(0)] ELSE fs
            /\ \E pip_ok \in BOOLEAN :
                  IF pip_ok
                  THEN installed' = installed \cup {Pkg.new_pip[k]} /\ pip_failed' = pip_failed
                  ELSE installed' = installed /\ pip_failed' = pip_failed \cup {Pkg.new_pip[k]}
            /\ phase' = phase /\ k' = k + 1
    /\ NoteFailure
    /\ UNCHANGED <<inputs, present, pc, zip_files, idx, snapshot_file, exit_code,
                   retry_count, started, marker_before, written, results>>

\* the text written to the marker: to_version + '\n', str(target_version) in Qt
MarkerText(v, ver) == IF v = "qt" THEN Plain(ver) ELSE WithNewline(ver)

CommitFails(f, lk) ==
    IsDirAt(f, VERSION_FILE) \/ (IsFileAt(f, VERSION_FILE) /\ VERSION_FILE \in lk)

\* PHASE 5: the version marker is rewritten
CommitStep ==
    /\ pc = "apply" /\ phase = "CommittingVersion"
    /\ IF CommitFails(fs, locked)
       THEN phase' = "Failed" /\ fs' = fs
       ELSE /\ phase' = "Done"
            /\ fs' = [fs EXCEPT ![VERSION_FILE] = File(MarkerText(variant, Pkg.to_version))]
    /\ NoteFailure
    /\ UNCHANGED <<inputs, present, pc, zip_files, idx, snapshot_file, exit_code, k,
                   installed, retry_count, history>>

\* the end of a phase's loop
Advance ==
    /\ pc = "apply" /\ phase \in FirstFour
    /\ k > PhaseLen(variant, Pkg, phase)
    /\ phase' = NextPhase(phase)
    /\ k' = 1
    /\ UNCHANGED failed_in
    /\ UNCHANGED <<inputs, present, fs, pc, zip_files, idx, snapshot_file, exit_code,
                   installed, retry_count, history>>

Record(okay) == Append(results, [version |-> Cur, ok |-> okay, fs |-> fs])

\* ------------------------------------------------------- apply_update.main
AllPresent(zs) == \A i \in 1..Len(zs) : zs[i] \in present

\* main with the existence check made on the first path only
MainStartChecksFirstPath ==
    /\ pc = "main"
    /\ IF zip_files = <<>> \/ zip_files[1] \notin present
       THEN pc' = "exited" /\ exit_code' = 1 /\ UNCHANGED <<snapshot_file, idx>>
       ELSE /\ pc' = "loop" /\ idx' = 1
            /\ snapshot_file' = SnapshotName(zip_files[1])
            /\ exit_code' = exit_code
    /\ UNCHANGED failed_in
    /\ UNCHANGED <<inputs, present, fs, zip_files, phase, k, installed, retry_count,
                   history>>

\* argument check, existence check of every path, snapshot name of the first package
MainStart ==
    /\ pc = "main"
    /\ IF zip_files = <<>> \/ ~AllPresent(zip_files)
       THEN pc' = "exited" /\ exit_code' = 1 /\ UNCHANGED <<snapshot_file, idx>>
       ELSE /\ pc' = "loop" /\ idx' = 1
            /\ snapshot_file' = SnapshotName(zip_files[1])
            /\ exit_code' = exit_code
    /\ UNCHANGED failed_in
    /\ UNCHANGED <<inputs, present, fs, zip_files, phase, k, installed, retry_count,
                   history>>

MainApplyNext ==
    /\ pc = "loop" /\ idx <= Len(zip_files)
    /\ pc' = "apply"
    /\ BeginApply
    /\ UNCHANGED <<inputs, present, fs, zip_files, idx, snapshot_file, exit_code,
                   installed, retry_count, results>>

MainAfterDone ==
    /\ pc = "apply" /\ phase = "Done" /\ driver \in {"main", "tk"}
    /\ results' = Record(TRUE)
    /\ pc' = "loop" /\ idx' = idx + 1 /\ phase' = "Idle"
    /\ UNCHANGED failed_in
    /\ UNCHANGED <<inputs, present, fs, zip_files, snapshot_file, exit_code, k,
                   installed, retry_count, started, marker_before, written, pip_failed>>

\* except Exception: sys.exit(1)
MainAfterFailed ==
    /\ pc = "apply" /\ phase = "Failed" /\ driver \in {"main", "tk"}
    /\ results' = Record(FALSE)
    /\ pc' = "exited" /\ exit_code' = 1
    /\ UNCHANGED failed_in
    /\ UNCHANGED <<inputs, present, fs, zip_files, idx, snapshot_file, phase, k,
                   installed, retry_count, started, marker_before, written, pip_failed>>

\* after the loop: exit 0; the server variant first makes the install script
\* executable, and os.stat of a missing script raises
MainFinish ==
    /\ pc = "loop" /\ idx > Len(zip_files)
    /\ pc' = "exited"
    /\ exit_code' = IF variant = "server" /\ ~ExistsAt(fs, INSTALL_SCRIPT) THEN 1 ELSE 0
    /\ UNCHANGED failed_in
    /\ UNCHANGED <<inputs, present, fs, zip_files, idx, snapshot_file, phase, k,
                   installed, retry_count, history>>

\* -------------------------------------------------- UpdaterApp.auto_update
\* the download loop handing every package on, downloaded or not
TkDownloadKeepsFailed ==
    /\ pc = "tk_download" /\ idx <= Len(chain)
    /\ \E fetched \in BOOLEAN :
          /\ zip_files' = Append(zip_files, chain[idx])
          /\ present' = IF fetched THEN present \cup {chain[idx]} ELSE present
    /\ idx' = idx + 1
    /\ UNCHANGED failed_in
    /\ UNCHANGED <<inputs, fs, pc, snapshot_file, phase, k, exit_code, installed,
                   retry_count, history>>

\* one iteration of the download loop: a failed download is logged and skipped
TkDownload ==
    /\ pc = "tk_download" /\ idx <= Len(chain)
    /\ \E fetched \in BOOLEAN :
          IF fetched
          THEN /\ zip_files' = Append(zip_files, chain[idx])
               /\ present' = present \cup {chain[idx]}
          ELSE UNCHANGED <<zip_files, present>>
    /\ idx' = idx + 1
    /\ UNCHANGED failed_in
    /\ UNCHANGED <<inputs, fs, pc, snapshot_file, phase, k, exit_code, installed,
                   retry_count, history>>

\* after the loop: nothing downloaded starts the server, otherwise the apply
\* command runs over the downloaded packages
TkRun ==
    /\ pc = "tk_download" /\ idx > Len(chain)
    /\ pc' = IF zip_files = <<>> THEN "start_server" ELSE "main"
    /\ UNCHANGED failed_in
    /\ UNCHANGED <<inputs, present, fs, zip_files, idx, snapshot_file, phase, k,
                   exit_code, installed, retry_count, history>>

\* result.returncode: non-zero starts the server; zero writes chain[-1][1] to
\* the marker and restarts the updater
TkResult ==
    /\ pc = "exited" /\ driver = "tk"
    /\ IF exit_code # 0
       THEN pc' = "start_server" /\ fs' = fs
       ELSE IF CommitFails(fs, locked)
            THEN pc' = "start_server" /\ fs' = fs
            ELSE /\ pc' = "restart_updater"
                 /\ fs' = [fs EXCEPT ![VERSION_FILE] = File(WithNewline(chain[Len(chain)]))]
    /\ UNCHANGED failed_in
    /\ UNCHANGED <<inputs, present, zip_files, idx, snapshot_file, phase, k, exit_code,
                   installed, retry_count, history>>

\* ------------------------------------------------------------ UpdaterWidget
\* apply_next_update: all done, or the download of the next pending update starts
QtNext ==
    /\ pc = "qt_next"
    /\ pc' = IF idx > Len(zip_files) THEN "qt_finished" ELSE "qt_downloading"
    /\ UNCHANGED failed_in
    /\ UNCHANGED <<inputs, present, fs, zip_files, idx, snapshot_file, phase, k,
                   exit_code, installed, retry_count, history>>

\* the download thread fails (only the status label changes)
QtDownloadFailed ==
    /\ pc = "qt_downloading"
    /\ pc' = "qt_stalled"
    /\ UNCHANGED failed_in
    /\ UNCHANGED <<inputs, present, fs, zip_files, idx, snapshot_file, phase, k,
                   exit_code, installed, retry_count, history>>

\* the download thread finishes: on_zip_downloaded opens the package
QtDownloaded ==
    /\ pc = "qt_downloading"
    /\ present' = present \cup {Cur}
    /\ pc' = "apply"
    /\ BeginApply
    /\ UNCHANGED <<inputs, fs, zip_files, idx, snapshot_file, exit_code, installed,
                   retry_count, results>>

\* after the marker is written: the package file is removed, the index advances
QtAfterDone ==
    /\ pc = "apply" /\ phase = "Done" /\ driver = "qt"
    /\ results' = Record(TRUE)
    /\ present' = present \ {Cur}
    /\ idx' = idx + 1
    /\ pc' = "qt_next" /\ phase' = "Idle"
    /\ UNCHANGED failed_in
    /\ UNCHANGED <<inputs, fs, zip_files, snapshot_file, exit_code, k, installed,
                   retry_count, started, marker_before, written, pip_failed>>

\* one retry more than max_retries allows
MayRetryOnceMore(n) == n <= max_retries + 1

\* if update_info["retry_count"] <= max_retries
MayRetry(n) == n <= max_retries

\* except Exception: the package file is removed and the same update is
\* downloaded again, until retry_count exceeds max_retries
QtAfterFailed ==
    /\ pc = "apply" /\ phase = "Failed" /\ driver = "qt"
    /\ results' = Record(FALSE)
    /\ present' = present \ {Cur}
    /\ retry_count' = [retry_count EXCEPT ![idx] = @ + 1]
    /\ pc' = IF MayRetry(retry_count[idx] + 1) THEN "qt_downloading" ELSE "qt_gaveup"
    /\ phase' = "Idle"
    /\ UNCHANGED failed_in
    /\ UNCHANGED <<inputs, fs, zip_files, idx, snapshot_file, exit_code, k, installed,
                   started, marker_before, written, pip_failed>>

\* ------------------------------------------------------------- snapshooter
EXCLUDE_DIRS == {"venv", "win_venv", ".venv", ".win_venv", "_snapshots", "_update_ver", ".git"}
EXCLUDE_FILES == {"social.db", "config.json", "upload_queue*"}

\* path_obj.match('snapshot_*'), path_obj.match('update_*') on the last segment
MatchesPattern(seg) ==
    seg \in Range(SnapSegs) \cup {"snapshot_.json", "update_metadata.json", "update_old"}

\* the name patterns left out of the exclusion test
ShouldExcludeNoPatterns(l) ==
    \/ \E i \in 1..Len(l) : l[i] \in EXCLUDE_DIRS
    \/ l[Len(l)] \in EXCLUDE_FILES

should_exclude(l) ==
    \/ \E i \in 1..Len(l) : l[i] \in EXCLUDE_DIRS
    \/ l[Len(l)] \in EXCLUDE_FILES
    \/ MatchesPattern(l[Len(l)])

\* hashlib.sha256 of the bytes
get_file_checksum(c) == <<"sha256", c>>

\* os.walk('.') top-down: the files of the root, then those of d
WalkOrder ==
    <<VERSION_FILE, PHidden, PE, REQ_FILE, INSTALL_SCRIPT, METADATA_NAME, PCfg>>
        \o [v \in Versions |-> SnapshotName(v)] \o <<PD, PDF, PDG, PGit, PGitF, PUpd, PUpdF>>

\* the walk descending into excluded directories as well
WalkedNoPruning(t, l) ==
    /\ InsideRoot(l)
    /\ \A a \in Ancestors(l) \ {Root} : IsDirAt(t, a)

\* the walk reaches l: every directory above it exists and was not pruned
Walked(t, l) ==
    /\ InsideRoot(l)
    /\ \A a \in Ancestors(l) \ {Root} : IsDirAt(t, a) /\ ~should_exclude(a)

\* create_snapshot: 'files' in walk order (path and checksum), 'directories'
create_snapshot(t, version) ==
    LET fl == SelectSeq(WalkOrder,
                  LAMBDA l : IsFileAt(t, l) /\ Walked(t, l) /\ ~should_exclude(l))
    IN  [version |-> version,
         files |-> [i \in 1..Len(fl) |->
                      [path |-> fl[i], sum |-> get_file_checksum(t[fl[i]][2])]],
         directories |-> SelectSeq(WalkOrder,
                  LAMBDA l : IsDirAt(t, l) /\ Walked(t, l) /\ ~should_exclude(l)),
         pip |-> Deps]

Keys(files) == [i \in 1..Len(files) |-> files[i].path]
HasKey(files, p) == \E i \in 1..Len(files) : files[i].path = p
SumOf(files, p) == files[CHOOSE i \in 1..Len(files) : files[i].path = p].sum

\* the checksum comparison forgotten: every path of both snapshots is modified
RECURSIVE ClassifyNewNoCompare(_, _, _, _)
ClassifyNewNoCompare(old_files, new_files, i, acc) ==
    IF i > Len(new_files) THEN acc
    ELSE ClassifyNewNoCompare(old_files, new_files, i + 1,
            IF ~HasKey(old_files, new_files[i].path)
            THEN [acc EXCEPT !.added = Append(@, new_files[i].path)]
            ELSE [acc EXCEPT !.modified = Append(@, new_files[i].path)])

\* for file, checksum in new_files.items(): added, or modified, or neither
RECURSIVE ClassifyNew(_, _, _, _)
ClassifyNew(old_files, new_files, i, acc) ==
    IF i > Len(new_files) THEN acc
    ELSE ClassifyNew(old_files, new_files, i + 1,
            IF ~HasKey(old_files, new_files[i].path)
            THEN [acc EXCEPT !.added = Append(@, new_files[i].path)]
            ELSE IF SumOf(old_files, new_files[i].path) # new_files[i].sum
                 THEN [acc EXCEPT !.modified = Append(@, new_files[i].path)]
                 ELSE acc)

\* the directory sets not subtracted from each other
DiffDirsKept(old, new) ==
    LET c == ClassifyNew(old.files, new.files, 1, [added |-> <<>>, modified |-> <<>>])
    IN  [added_files |-> c.added, modified_files |-> c.modified,
         deleted_files |-> SelectSeq(Keys(old.files), LAMBDA p : ~HasKey(new.files, p)),
         added_dirs |-> new.directories,
         deleted_dirs |-> old.directories]

\* the two directory differences taken the wrong way round
DiffDirsSwapped(old, new) ==
    LET c == ClassifyNew(old.files, new.files, 1, [added |-> <<>>, modified |-> <<>>])
    IN  [added_files |-> c.added, modified_files |-> c.modified,
         deleted_files |-> SelectSeq(Keys(old.files), LAMBDA p : ~HasKey(new.files, p)),
         added_dirs |-> SelectSeq(old.directories,
                            LAMBDA d : d \notin Range(new.directories)),
         deleted_dirs |-> SelectSeq(new.directories,
                            LAMBDA d : d \notin Range(old.directories))]

\* "Compute differences" of create_update_package
Diff(old, new) ==
    LET c == ClassifyNew(old.files, new.files, 1, [added |-> <<>>, modified |-> <<>>])
    IN  [added_files |-> c.added, modified_files |-> c.modified,
         deleted_files |-> SelectSeq(Keys(old.files), LAMBDA p : ~HasKey(new.files, p)),
         added_dirs |-> SelectSeq(new.directories,
                            LAMBDA d : d \notin Range(old.directories)),
         deleted_dirs |-> SelectSeq(old.directories,
                            LAMBDA d : d \notin Range(new.directories))]

\* the --full flag ignored
ComputeDiffNoOverride(old, new, isfull) == Diff(old, new)

\* "If --full, include everything"
ComputeDiff(old, new, isfull) ==
    IF isfull
    THEN [added_files |-> Keys(new.files), modified_files |-> <<>>,
          deleted_files |-> <<>>, added_dirs |-> new.directories,
          deleted_dirs |-> <<>>]
    ELSE Diff(old, new)

\* the existence test left out: every listed name gets an entry
PayloadOfEveryName(t, names) ==
    [i \in 1..Len(names) |->
        Entry(names[i], FALSE, IF IsFileAt(t, names[i]) THEN t[names[i]][2] ELSE 0)]

\* the archive payload: every added or modified file that exists at build time
PayloadOf(t, names) ==
    LET there == SelectSeq(names, LAMBDA n : IsFileAt(t, n))
    IN  [i \in 1..Len(there) |-> Entry(there[i], FALSE, t[there[i]][2])]

\* get_current_version of the build machine
DevVersion(t) == MarkerValue(t)

\* a build machine without any earlier snapshot
NoTree == [l \in Locs |-> Absent]

\* "Default: empty base (full update)"
EmptyBase == [version |-> 0, files |-> <<>>, directories |-> <<>>, pip |-> <<>>]

\* old_snapshot_data: the earlier snapshot the build diffs against, or the empty base
SnapA == IF devA = NoTree THEN EmptyBase ELSE create_snapshot(devA, DevVersion(devA))
SnapB == create_snapshot(devB, DevVersion(devB))

BuildPackage(old, new, isfull, t) ==
    LET d == ComputeDiff(old, new, isfull)
    IN  [from_version |-> old.version,
         added_files |-> d.added_files,
         modified_files |-> d.modified_files,
         deleted_files |-> d.deleted_files,
         added_dirs |-> d.added_dirs,
         deleted_dirs |-> d.deleted_dirs,
         new_pip |-> new.pip,
         payload |-> PayloadOf(t, d.added_files \o d.modified_files)]

\* the build tree when the archive is written
AtArchiveTime == [l \in Locs |-> IF l \in vanished THEN Absent ELSE devB[l]]

EmptyP ==
    [from_version |-> 0, added_files |-> <<>>, modified_files |-> <<>>,
     deleted_files |-> <<>>, added_dirs |-> <<>>, deleted_dirs |-> <<>>,
     new_pip |-> <<>>, payload |-> <<>>]

\* create_update_package: the package of the change from SnapA to SnapB is
\* written and handed to the driver
Build ==
    /\ pc = "build"
    /\ P' = BuildPackage(SnapA, SnapB, full, AtArchiveTime)
    /\ zip_files' = chain
    /\ present' = IF driver = "main" THEN Range(chain) ELSE {}
    /\ pc' = IF driver = "main" THEN "main" ELSE "qt_next"
    /\ UNCHANGED failed_in
    /\ UNCHANGED <<variant, driver, chain, devA, devB, full, locked, marker_initial, resolver,
                   vanished, capture, fs, idx,
                   snapshot_file, phase, k, exit_code, installed, retry_count, history>>

\* ------------------------------------------------------------ initial states
OldContent == WithNewline(0)
NewContent == Plain(1)

\* trees: the marker, the directory d with or without d/f and d/g or a file
\* d, the install script; a file outside the root
MkTree(marker, d, script) ==
    [l \in Locs |->
        IF l = VERSION_FILE THEN (IF marker THEN File(OldContent) ELSE Absent)
        ELSE IF l = PD THEN (IF d = "file" THEN File(OldContent)
                             ELSE IF d \in {"dir", "dirf"} THEN Dir ELSE Absent)
        ELSE IF l \in {PDF, PDG} THEN (IF d = "dirf" THEN File(OldContent) ELSE Absent)
        ELSE IF l = PEscape THEN File(OldContent)
        ELSE IF l = INSTALL_SCRIPT THEN (IF script THEN File(OldContent) ELSE Absent)
        ELSE Absent]

LockChoices(t) == {{}} \cup {{l} : l \in {m \in {PDF} : IsFileAt(t, m)}}

RECURSIVE SeqsUpTo(_, _)
SeqsUpTo(S, n) ==
    IF n = 0 THEN {<<>>}
    ELSE LET shorter == SeqsUpTo(S, n - 1)
         IN  shorter \cup {Append(q, x) : q \in shorter, x \in S}

NoRepeat(q) == \A i, j \in 1..Len(q) : i # j => q[i] # q[j]

StrictlyUp(q) == \A i \in 1..(Len(q) - 1) : q[i] < q[i + 1]

PayloadEntries ==
    {Entry(n, FALSE, NewContent) : n \in {VERSION_FILE, PD, PDF, PHidden, PEscape}}
        \cup {Entry(PD, TRUE, 0)}

Deletions ==
    {[files |-> <<>>, dirs |-> <<>>], [files |-> <<VERSION_FILE>>, dirs |-> <<>>],
     [files |-> <<PDF>>, dirs |-> <<>>], [files |-> <<PD>>, dirs |-> <<>>],
     [files |-> <<>>, dirs |-> <<PD>>]}


\* the order in which zipf.write lays the entries of a package down: the
\* files of the root, then the directory d and what it holds
PayloadOrder ==
    <<Entry(VERSION_FILE, FALSE, NewContent), Entry(PHidden, FALSE, NewContent),
      Entry(PEscape, FALSE, NewContent), Entry(PD, TRUE, 0),
      Entry(PD, FALSE, NewContent), Entry(PDF, FALSE, NewContent)>>

EntryRank(e) == CHOOSE i \in 1..Len(PayloadOrder) : PayloadOrder[i] = e

InWalkOrder(q) == \A i \in 1..(Len(q) - 1) : EntryRank(q[i]) < EntryRank(q[i + 1])

\* hand-made packages: any change set over the path universe; a payload of
\* one or two entries comes in any order, a longer one in the order of the walk
CraftedContents ==
    {[from_version |-> 0, added_files |-> [i \in 1..Len(pl) |-> pl[i].name],
      modified_files |-> <<>>,
      deleted_files |-> del.files, deleted_dirs |-> del.dirs, added_dirs |-> ad,
      new_pip |-> np, payload |-> pl] :
        del \in Deletions,
        ad \in {<<>>, <<PD>>, <<VERSION_FILE>>},
        np \in {<<>>, Deps},
        pl \in {q \in SeqsUpTo(PayloadEntries, MaxEntries) :
                    NoRepeat(q) /\ (Len(q) > 2 => InWalkOrder(q))}}

\* plain packages for the runs of a whole chain
PlainContents ==
    {[from_version |-> 0, added_files |-> [i \in 1..Len(pl) |-> pl[i].name],
      modified_files |-> <<>>,
      deleted_files |-> <<>>, deleted_dirs |-> <<>>, added_dirs |-> ad,
      new_pip |-> np, payload |-> pl] :
        ad \in {<<>>, <<PD>>},
        np \in {<<>>, Deps},
        pl \in {<<>>, <<Entry(PDF, FALSE, NewContent)>>,
                <<Entry(VERSION_FILE, FALSE, NewContent)>>}}

Chains == SeqsUpTo(Versions, MaxPkgs)

NoBuild == devA = NoTree /\ devB = NoTree /\ full = FALSE /\ vanished = {}

\* the updater has not looked for updates
NoResolver ==
    /\ current_version = <<>> /\ paragraphs = <<>> /\ version_map = <<>>
    /\ updates = <<>>
    /\ latest_version = <<>> /\ curr = <<>>

NoCapture ==
    /\ snapshots = {} /\ backups = {} /\ persisted = {}
    /\ clock = [sec |-> 0, serial |-> 0]
    /\ runs = 0 /\ call_dir = {} /\ baseline = [snap |-> EmptyBase, stamp |-> 0]

InitCommon ==
    /\ snapshot_file = DEFAULT_SNAPSHOT
    /\ phase = "Idle"
    /\ k = 1
    /\ idx = 1
    /\ exit_code = -1
    /\ installed = {}
    /\ retry_count = [i \in 1..Len(chain) |-> 0]
    /\ started = <<>>
    /\ marker_before = Absent
    /\ written = {}
    /\ pip_failed = {}
    /\ results = <<>>
    /\ failed_in = "none"
    /\ marker_initial = fs[VERSION_FILE]

\* one package applied once or twice by the apply command, or once by the Qt
\* widget; the package is hand-made
InitCrafted ==
    /\ P \in CraftedContents
    /\ \E d \in {"none", "dirf"}, m \in BOOLEAN : fs = MkTree(m, d, TRUE)
    /\ locked \in LockChoices(fs)
    /\ \/ /\ driver = "main" /\ variant \in {"cli", "server"}
          /\ chain \in {<<1>>, <<1, 1>>}
          /\ pc = "main"
       \/ /\ driver = "qt" /\ variant = "qt"
          /\ chain = <<1>>
          /\ pc = "qt_next"
    /\ zip_files = chain
    /\ present = IF driver = "main" THEN Range(chain) ELSE {}

\* a chain of plain packages under every driver
InitChain ==
    /\ P \in PlainContents
    /\ \E d \in {"none", "file", "dir", "dirf"}, m \in BOOLEAN, sc \in BOOLEAN :
          fs = MkTree(m, d, sc)
    /\ locked \in LockChoices(fs)
    /\ \/ /\ driver = "main" /\ variant \in {"cli", "server"}
          /\ chain \in Chains
          /\ zip_files = chain
          /\ present \in {Range(chain) \ X : X \in {{}} \cup {{v} : v \in Range(chain)}}
          /\ pc = "main"
       \/ /\ driver = "tk" /\ variant \in {"cli", "server"}
          /\ chain \in {q \in Chains : q # <<>> /\ StrictlyUp(q)}
          /\ zip_files = <<>>
          /\ present = {}
          /\ pc = "tk_download"
       \/ /\ driver = "qt" /\ variant = "qt"
          /\ chain \in {q \in Chains : q # <<>> /\ StrictlyUp(q)}
          /\ zip_files = chain
          /\ present = {}
          /\ pc = "qt_next"

Init == (InitCrafted \/ InitChain) /\ NoBuild /\ NoResolver /\ NoCapture /\ InitCommon

Next ==
    \/ DeleteStep \/ ExtractStep \/ RecreateStep \/ ReconcileCli \/ ReconcileServer
    \/ CommitStep \/ Advance
    \/ MainStart \/ MainApplyNext \/ MainAfterDone \/ MainAfterFailed \/ MainFinish
    \/ TkDownload \/ TkRun \/ TkResult
    \/ QtNext \/ QtDownloadFailed \/ QtDownloaded \/ QtAfterDone \/ QtAfterFailed

Spec == Init /\ [][Next]_vars

\* build-machine trees: the marker (always there), d, the hidden file
MkDev(vc, d, dc, h) ==
    [l \in Locs |->
        IF l = VERSION_FILE THEN File(vc)
        ELSE IF l = PD THEN (IF d = "file" THEN File(dc)
                             ELSE IF d \in {"dir", "dirf"} THEN Dir ELSE Absent)
        ELSE IF l = PDF THEN (IF d = "dirf" THEN File(dc) ELSE Absent)
        ELSE IF l = PHidden THEN (IF h THEN File(NewContent) ELSE Absent)
        ELSE Absent]

DevTrees ==
    {MkDev(vc, d, dc, h) :
        vc \in {Plain(v) : v \in Versions} \cup {WithNewline(v) : v \in Versions},
        d \in {"none", "file", "dir", "dirf"},
        dc \in {OldContent, NewContent},
        h \in BOOLEAN}

\* build-machine trees that hold files named like the documents of a package
\* (update_metadata.json and the snapshot_<version>.json of their own version),
\* a file with an excluded name, files in an excluded directory and in a
\* directory whose name matches an excluded pattern, and the directory e
DocTrees ==
    {[MkDev(Plain(v), d, NewContent, FALSE) EXCEPT
          ![METADATA_NAME] = File(NewContent),
          ![SnapshotName(v)] = File(NewContent),
          ![PCfg] = File(NewContent),
          ![PE] = Dir,
          ![PGit] = Dir, ![PGitF] = File(NewContent),
          ![PUpd] = Dir, ![PUpdF] = File(NewContent)] :
        v \in Versions, d \in {"none", "dirf"}}

\* the files that may disappear while the package is built
VanishChoices(t) == {{}} \cup {{l} : l \in {m \in {PDF} : IsFileAt(t, m)}}

\* an installation whose files and directories are exactly those of the tree
\* the snapshot was taken of, and a file outside the root
InstallFrom(t) ==
    [l \in Locs |->
        IF l = PEscape THEN File(OldContent)
        ELSE IF Walked(t, l) /\ ~should_exclude(l) THEN t[l]
        ELSE Absent]

\* a package is built from the snapshots of two trees and applied to an
\* installation in the state of the first
InitBuild ==
    /\ devA \in DevTrees \cup {NoTree}
    /\ devB \in DevTrees \cup DocTrees
    /\ vanished \in VanishChoices(devB)
    /\ full \in BOOLEAN
    /\ P = EmptyP
    /\ fs = InstallFrom(devA)
    /\ locked \in LockChoices(fs)
    /\ \/ driver = "main" /\ variant \in {"cli", "server"}
       \/ driver = "qt" /\ variant = "qt"
    /\ chain = <<DevVersion(devB)>>
    /\ zip_files = <<>>
    /\ present = {}
    /\ pc = "build"
    /\ NoResolver
    /\ NoCapture
    /\ InitCommon

NextBuild ==
    \/ Build
    \/ DeleteStep \/ ExtractStep \/ RecreateStep \/ ReconcileCli \/ ReconcileServer
    \/ CommitStep \/ Advance
    \/ MainStart \/ MainApplyNext \/ MainAfterDone \/ MainAfterFailed \/ MainFinish
    \/ QtNext \/ QtDownloadFailed \/ QtDownloaded \/ QtAfterDone \/ QtAfterFailed

SpecBuild == InitBuild /\ [][NextBuild]_vars

\* ---------------------------------------------------------- update resolver
\* A version text is a sequence of characters.
DigitChars == <<"0", "1", "2", "3", "4", "5", "6", "7", "8", "9">>

IsDigit(c) == \E i \in 1..10 : DigitChars[i] = c

DigitVal(c) == (CHOOSE i \in 1..10 : DigitChars[i] = c) - 1

RECURSIVE Digits(_)
\* the decimal text of a natural number
Digits(n) ==
    IF n < 10 THEN <<DigitChars[n + 1]>>
    ELSE Digits(n \div 10) \o <<DigitChars[(n % 10) + 1]>>

\* the text "a.b.c"
Dotted(t) == Digits(t[1]) \o <<".">> \o Digits(t[2]) \o <<".">> \o Digits(t[3])

RECURSIVE SplitDots(_, _, _)
\* str.split('.'): parts is the list of finished parts, part the one being read
SplitDots(s, parts, part) ==
    IF s = <<>> THEN Append(parts, part)
    ELSE IF Head(s) = "." THEN SplitDots(Tail(s), Append(parts, part), <<>>)
    ELSE SplitDots(Tail(s), parts, Append(part, Head(s)))

\* int() raises on a text that is empty or holds a character that is no digit
IntRaises(part) == part = <<>> \/ \E i \in 1..Len(part) : ~IsDigit(part[i])

RECURSIVE IntOf(_)
IntOf(part) ==
    IF part = <<>> THEN 0
    ELSE 10 * IntOf(SubSeq(part, 1, Len(part) - 1)) + DigitVal(part[Len(part)])

version_to_tuple(version) ==
    LET parts == SplitDots(version, <<>>, <<>>)
    IN  IF \E i \in 1..Len(parts) : IntRaises(parts[i]) THEN <<0, 0, 0>>
        ELSE [i \in 1..Len(parts) |-> IntOf(parts[i])]

\* Python's order on tuples of integers: the first differing component
\* decides, and a proper prefix is the smaller one
TupleLess(a, b) ==
    \E i \in 1..Len(b) :
        /\ \A j \in 1..(i - 1) : j <= Len(a) /\ a[j] = b[j]
        /\ i > Len(a) \/ a[i] < b[i]

TupleLeq(a, b) == ~TupleLess(b, a)

\* the order of the texts as strings: character by character, "." before digits
CharRank(c) == IF c = "." THEN 0 ELSE IF IsDigit(c) THEN DigitVal(c) + 1 ELSE 11

LexicalLeq(v, w) ==
    TupleLeq([i \in 1..Len(v) |-> CharRank(v[i])], [i \in 1..Len(w) |-> CharRank(w[i])])

\* the versions an update document and a marker may name
VerTriples == {<<1, 2, 0>>, <<1, 9, 0>>, <<1, 10, 0>>, <<2, 0, 0>>}

VerTexts == {Dotted(t) : t \in VerTriples}

\* a missing marker reads as 0.0.0; a marker may hold any text
MarkerTexts == VerTexts \cup {Dotted(<<0, 0, 0>>), <<"x">>, <<"1", ".", "1", "0">>}

\* the triples of integers the texts of the model are written from
KnownTriples ==
    VerTriples \cup {<<0, 0, 0>>, <<1, 0, 0>>, <<1, 1, 0>>, <<1, 5, 0>>}

KnownTexts == {Dotted(t) : t \in KnownTriples}

\* version_to_tuple(v) <= version_to_tuple(w), worked out once for the texts
\* of the model
VersionOrder ==
    {pr \in (KnownTexts \cup MarkerTexts) \X (KnownTexts \cup MarkerTexts) :
        TupleLeq(version_to_tuple(pr[1]), version_to_tuple(pr[2]))}

\* version_to_tuple(v) <= version_to_tuple(w)
VersionLeq(v, w) ==
    IF v \in KnownTexts \cup MarkerTexts /\ w \in KnownTexts \cup MarkerTexts
    THEN <<v, w>> \in VersionOrder
    ELSE TupleLeq(version_to_tuple(v), version_to_tuple(w))

RECURSIVE InsertByTo(_, _)
\* u goes behind every rule whose to_version is not greater (a stable sort)
InsertByTo(sorted, u) ==
    IF sorted = <<>> THEN <<u>>
    ELSE IF VersionLeq(Head(sorted).tv, u.tv) THEN <<Head(sorted)>> \o InsertByTo(Tail(sorted), u)
    ELSE <<u>> \o sorted

RECURSIVE SortedByTo(_)
SortedByTo(us) ==
    IF us = <<>> THEN <<>>
    ELSE InsertByTo(SortedByTo(SubSeq(us, 1, Len(us) - 1)), us[Len(us)])

\* \d+\.\d+\.\d+ : three runs of digits between two dots
IsVersionText(t) ==
    LET parts == SplitDots(t, <<>>, <<>>)
    IN  Len(parts) = 3 /\ \A i \in 1..3 : ~IntRaises(parts[i])

\* re.match of the rule pattern on the text of a paragraph
MatchesRule(p) == IsVersionText(p.fv) /\ IsVersionText(p.tv)

\* every paragraph taken for a rule, matching or not
ParseKeepsEveryLine(doc) == SortedByTo(doc)

\* the paragraphs that match, as rules in the order of their to_version
parse_versions_docx(doc) == SortedByTo(SelectSeq(doc, MatchesRule))

NoVersion == <<"N", "/", "A">>

get_latest_version(us) == IF us = <<>> THEN NoVersion ELSE us[Len(us)].tv

\* every rule, whatever version it starts from
CandidatesAnyFrom(us, c) == us

\* the rules that may be applied at version c
Candidates(us, c) == SelectSeq(us, LAMBDA u : VersionLeq(u.fv, c))

RECURSIVE MinByTo(_)
\* the first of the candidates with the least to_version
MinByTo(cs) ==
    IF Len(cs) = 1 THEN cs[1]
    ELSE LET m == MinByTo(SubSeq(cs, 1, Len(cs) - 1))
         IN  IF VersionLeq(m.tv, cs[Len(cs)].tv) THEN m ELSE cs[Len(cs)]

RECURSIVE MaxByTo(_)
\* max(candidates, key = to_version): the first of the greatest ones
MaxByTo(cs) ==
    IF Len(cs) = 1 THEN cs[1]
    ELSE LET m == MaxByTo(SubSeq(cs, 1, Len(cs) - 1))
         IN  IF VersionLeq(cs[Len(cs)].tv, m.tv) THEN m ELSE cs[Len(cs)]

\* the stop test made on the first candidate instead of the greatest
WalkStopsOnFirst(us, c) ==
    \/ Candidates(us, c) = <<>>
    \/ VersionLeq(Candidates(us, c)[1].tv, c)

\* the stop test letting a to_version equal to the version reached go on
WalkStopsOnlyBelow(us, c) ==
    \/ Candidates(us, c) = <<>>
    \/ /\ VersionLeq(MaxByTo(Candidates(us, c)).tv, c)
       /\ ~VersionLeq(c, MaxByTo(Candidates(us, c)).tv)

\* the loop of get_updates_chain leaves at this pass
WalkStops(us, c) ==
    \/ Candidates(us, c) = <<>>
    \/ VersionLeq(MaxByTo(Candidates(us, c)).tv, c)

\* UpdaterApp.auto_update: the document has been downloaded and is parsed
ParseVersions ==
    /\ pc = "tk_parse"
    /\ updates' = parse_versions_docx(paragraphs)
    /\ pc' = "tk_latest"
    /\ UNCHANGED <<variant, driver, chain, P, devA, devB, full, locked, marker_initial,
                   vanished, capture, current_version, paragraphs, version_map, latest_version, curr,
                   present, fs, zip_files, idx, snapshot_file, phase, k, exit_code,
                   installed, retry_count, history, failed_in>>

\* the latest version is read off the parsed rules; an installation that
\* names it starts the application without looking for a chain
LatestVersion ==
    /\ pc = "tk_latest"
    /\ latest_version' = get_latest_version(updates)
    /\ IF current_version = latest_version'
       THEN pc' = "start_server" /\ UNCHANGED curr
       ELSE pc' = "tk_chain" /\ curr' = current_version
    /\ UNCHANGED <<variant, driver, chain, P, devA, devB, full, locked, marker_initial,
                   vanished, capture, current_version, paragraphs, version_map, updates,
                   present, fs, zip_files, idx, snapshot_file, phase, k, exit_code,
                   installed, retry_count, history, failed_in>>

\* one pass of the loop of get_updates_chain
ChainStep ==
    /\ pc = "tk_chain"
    /\ IF WalkStops(updates, curr)
       THEN pc' = "tk_chain_done" /\ UNCHANGED <<chain, curr>>
       ELSE LET best == MaxByTo(Candidates(updates, curr))
            IN  /\ chain' = Append(chain, best)
                /\ curr' = best.tv
                /\ UNCHANGED pc
    /\ UNCHANGED <<variant, driver, P, devA, devB, full, locked, marker_initial,
                   vanished, capture, current_version, paragraphs, version_map, updates,
                   latest_version,
                   present, fs, zip_files, idx, snapshot_file, phase, k, exit_code,
                   installed, retry_count, history, failed_in>>

\* the chain is back in auto_update: without one the application starts,
\* with one its archives are downloaded
ChainReturned ==
    /\ pc = "tk_chain_done"
    /\ pc' = IF chain = <<>> THEN "start_server" ELSE "tk_have_chain"
    /\ UNCHANGED <<inputs, present, fs, zip_files, idx, snapshot_file, phase, k, exit_code,
                   installed, retry_count, history, failed_in>>


Rules == {[fv |-> f, tv |-> t] : f \in VerTexts, t \in VerTexts} \ {[fv |-> v, tv |-> v] : v \in VerTexts}

\* the document of the project's example
ExampleRules ==
    {[fv |-> Dotted(<<1, 0, 0>>), tv |-> Dotted(<<1, 1, 0>>)],
     [fv |-> Dotted(<<1, 1, 0>>), tv |-> Dotted(<<2, 0, 0>>)],
     [fv |-> Dotted(<<1, 0, 0>>), tv |-> Dotted(<<1, 5, 0>>)]}

IsExample == Range(paragraphs) = ExampleRules /\ current_version = Dotted(<<1, 0, 0>>)

InitResolve ==
    /\ \/ /\ paragraphs \in {s \in SeqsUpTo(Rules, MaxUpdates) : NoRepeat(s)}
          /\ current_version \in MarkerTexts
       \/ /\ paragraphs \in {s \in SeqsUpTo(ExampleRules, 3) : NoRepeat(s) /\ Len(s) = 3}
          /\ current_version = Dotted(<<1, 0, 0>>)
    /\ updates = <<>> /\ latest_version = <<>> /\ curr = <<>>
    /\ version_map = <<>>
    /\ chain = <<>>
    /\ pc = "tk_parse"
    /\ variant = "cli" /\ driver = "tk"
    /\ P = EmptyP /\ NoBuild /\ NoCapture
    /\ fs = [l \in Locs |-> Absent] /\ locked = {}
    /\ zip_files = <<>> /\ present = {}
    /\ InitCommon

NextChain == ParseVersions \/ LatestVersion \/ ChainStep \/ ChainReturned

SpecChain == InitResolve /\ [][NextChain]_vars

\* the rules among the three versions whose order as texts is not their order
\* as numbers
LiveRules == {r \in Rules : r.fv # Dotted(<<1, 2, 0>>) /\ r.tv # Dotted(<<1, 2, 0>>)}

InitResolveLive ==
    /\ InitResolve
    /\ Range(paragraphs) \subseteq LiveRules
    /\ current_version \in {Dotted(<<0, 0, 0>>), Dotted(<<1, 9, 0>>), <<"x">>}

\* what a step of the resolver does to its position and to the chain: the
\* thread of auto_update is inside the resolver, moves on or appends a rule
ResolverStep ==
    /\ pc \in {"tk_parse", "tk_latest", "tk_chain", "tk_chain_done"}
    /\ pc' \in {"tk_latest", "tk_chain", "tk_chain_done", "start_server", "tk_have_chain"}
    /\ chain' \in {chain} \cup {Append(chain, u) : u \in Range(updates)}

\* the thread of auto_update runs on: while it is inside the resolver it
\* takes its next step
SpecChainLive == InitResolveLive /\ [][NextChain]_vars /\ WF_<<pc, chain>>(ResolverStep)

\* --------------------------------------------- UpdateWorker.run, the checks
\* link and isinstance(link, str) and link.strip().startswith("http"): the
\* link is a text starting with "http", another text ("ftp"), or null
LinkOk(link) == link = "http"

\* the test of one item: int(ver_str) does not raise, the version is above
\* the current one, the link is usable
Kept(e, cur) == ~IntRaises(e.key) /\ IntOf(e.key) > cur /\ LinkOk(e.link)

RECURSIVE InsertUp(_, _)
\* v goes behind every version that is not greater (a stable sort)
InsertUp(sorted, v) ==
    IF sorted = <<>> THEN <<v>>
    ELSE IF Head(sorted) <= v THEN <<Head(sorted)>> \o InsertUp(Tail(sorted), v)
    ELSE <<v>> \o sorted

RECURSIVE SortedUp(_)
SortedUp(q) ==
    IF q = <<>> THEN <<>>
    ELSE InsertUp(SortedUp(SubSeq(q, 1, Len(q) - 1)), q[Len(q)])

\* the versions of the kept items, sorted by version number
available_versions(vm, cur) ==
    LET kept == SelectSeq(vm, LAMBDA e : Kept(e, cur))
    IN  SortedUp([i \in 1..Len(kept) |-> IntOf(kept[i].key)])

\* showEvent, check_update, UpdateWorker.run and on_check_finished: the
\* marker is read and update.json fetched; a failure of either leaves the
\* widget with its error label, an empty list ends the wait, and a list
\* becomes pending_updates with current_update_index at its start
QtCheck ==
    /\ pc = "qt_check"
    /\ \E fetched \in BOOLEAN :
          IF ~fetched
          THEN pc' = "qt_check_error" /\ UNCHANGED <<zip_files, retry_count>>
          ELSE LET av == available_versions(version_map, MarkerValue(fs))
               IN  /\ zip_files' = av
                   /\ retry_count' = [i \in 1..Len(av) |-> 0]
                   /\ pc' = IF av = <<>> THEN "qt_no_updates" ELSE "qt_next"
    /\ idx' = 1
    /\ UNCHANGED failed_in
    /\ UNCHANGED <<inputs, present, fs, snapshot_file, phase, k, exit_code, installed,
                   history>>

\* the keys update.json may carry: numbers, a number written with a leading
\* zero, a text that is no number
KeyTexts == {<<"1">>, <<"2">>, <<"0", "1">>, <<"x">>}

Items == {[key |-> key, link |-> link] : key \in KeyTexts, link \in {"http", "ftp", "null"}}

\* a JSON object has no two items of one key
NoKeyTwice(vm) == \A i, j \in 1..Len(vm) : i # j => vm[i].key # vm[j].key

\* the packages of the feed: with or without the marker among the deleted
\* files, the added directories and the payload
QtContents ==
    {[from_version |-> 0, added_files |-> [i \in 1..Len(pl) |-> pl[i].name],
      modified_files |-> <<>>,
      deleted_files |-> del, deleted_dirs |-> <<>>, added_dirs |-> ad,
      new_pip |-> <<>>, payload |-> pl] :
        del \in {<<>>, <<VERSION_FILE>>},
        ad \in {<<>>, <<VERSION_FILE>>},
        pl \in {<<>>, <<Entry(VERSION_FILE, FALSE, NewContent)>>}}

\* the Qt widget is shown: no marker, the marker of a fresh installation, or
\* the marker an earlier update wrote
InitQtFeed ==
    /\ driver = "qt" /\ variant = "qt"
    /\ version_map \in {vm \in SeqsUpTo(Items, MaxPkgs) : NoKeyTwice(vm)}
    /\ current_version = <<>> /\ paragraphs = <<>> /\ updates = <<>>
    /\ latest_version = <<>> /\ curr = <<>>
    /\ P \in QtContents
    /\ \E m \in {Absent, File(OldContent), File(Plain(1))} :
          fs = [MkTree(FALSE, "none", TRUE) EXCEPT ![VERSION_FILE] = m]
    /\ locked = {}
    /\ chain = <<>> /\ zip_files = <<>> /\ present = {}
    /\ pc = "qt_check"

\* paragraphs that are no rule: a to_version of two numbers, a from_version
\* or a to_version that is no version
BadLines ==
    {[fv |-> Dotted(<<1, 9, 0>>), tv |-> <<"1", ".", "1", "0">>],
     [fv |-> <<"x">>, tv |-> Dotted(<<2, 0, 0>>)],
     [fv |-> Dotted(<<1, 9, 0>>), tv |-> <<"x">>]}

\* the Tk updater has downloaded a document whose paragraphs may be no rules
InitDocFeed ==
    /\ driver = "tk" /\ variant = "cli"
    /\ paragraphs \in {s \in SeqsUpTo(LiveRules \cup BadLines, MaxUpdates) : NoRepeat(s)}
    /\ current_version \in {Dotted(<<0, 0, 0>>), Dotted(<<1, 9, 0>>), <<"x">>}
    /\ updates = <<>> /\ latest_version = <<>> /\ curr = <<>>
    /\ version_map = <<>>
    /\ P = EmptyP
    /\ fs = [l \in Locs |-> Absent] /\ locked = {}
    /\ chain = <<>> /\ zip_files = <<>> /\ present = {}
    /\ pc = "tk_parse"

InitFeed == (InitQtFeed \/ InitDocFeed) /\ NoBuild /\ NoCapture /\ InitCommon

NextFeed ==
    \/ ParseVersions \/ LatestVersion \/ ChainStep \/ ChainReturned
    \/ QtCheck \/ QtNext \/ QtDownloadFailed \/ QtDownloaded \/ QtAfterDone \/ QtAfterFailed
    \/ DeleteStep \/ ExtractStep \/ RecreateStep \/ CommitStep \/ Advance

SpecFeed == InitFeed /\ [][NextFeed]_vars

\* ------------------------------------------------- snapshooter.main, captures
\* A snapshot document in _snapshots/ or _snapshots_backup/ is an entry of a
\* directory: its name (the version, and for the server builder the second of
\* its creation; sec is 0 for the cli builder, whose names carry no time) and
\* its content (the snapshot, and for the server builder its timestamp, which
\* differs from capture to capture).
SnapshotDocName(v, sec) == [version |-> v, sec |-> sec]

HasName(dir, name) == \E e \in dir : e.name = name

DocAt(dir, name) == (CHOOSE e \in dir : e.name = name).doc

\* open(name, 'w') and json.dump / shutil.copy2: the document of that name is replaced
WriteDoc(dir, name, doc) == {e \in dir : e.name # name} \cup {[name |-> name, doc |-> doc]}

\* get_file_checksum raises on a file that cannot be opened
HashRaises(t, lk) ==
    \E l \in Range(Keys(create_snapshot(t, DevVersion(t)).files)) : l \in lk

\* the document create_snapshot builds
NewDoc(b, t, now) ==
    [snap |-> create_snapshot(t, DevVersion(t)), stamp |-> IF b = "server" THEN now.serial ELSE 0]

NewName(b, t, now) == SnapshotDocName(DevVersion(t), IF b = "server" THEN now.sec ELSE 0)

\* the server builder copies an existing document of the same name aside
BackupBeforeWrite(b, dir, bak, name, now) ==
    IF b = "server" /\ HasName(dir, name)
    THEN WriteDoc(bak, SnapshotDocName(name.version, now.sec), DocAt(dir, name))
    ELSE bak

\* a capture that writes the part of the document it has before the hash fails
CreateSnapshotWritesPartial(next_pc) ==
    /\ IF HashRaises(devB, locked)
       THEN /\ pc' = "snap_raised"
            /\ snapshots' = WriteDoc(snapshots, NewName(variant, devB, clock),
                                     [snap |-> EmptyBase, stamp |-> 0])
            /\ UNCHANGED <<backups, persisted, clock>>
       ELSE /\ pc' = next_pc
            /\ backups' = BackupBeforeWrite(variant, snapshots, backups,
                                            NewName(variant, devB, clock), clock)
            /\ snapshots' = WriteDoc(snapshots, NewName(variant, devB, clock),
                                     NewDoc(variant, devB, clock))
            /\ persisted' = persisted \cup {[name |-> NewName(variant, devB, clock),
                                                doc |-> NewDoc(variant, devB, clock)]}
            /\ clock' = [clock EXCEPT !.serial = @ + 1]

\* create_snapshot: the tree is walked and hashed, then the document is written
CreateSnapshot(next_pc) ==
    /\ IF HashRaises(devB, locked)
       THEN /\ pc' = "snap_raised"
            /\ UNCHANGED <<snapshots, backups, persisted, clock>>
       ELSE /\ pc' = next_pc
            /\ backups' = BackupBeforeWrite(variant, snapshots, backups,
                                            NewName(variant, devB, clock), clock)
            /\ snapshots' = WriteDoc(snapshots, NewName(variant, devB, clock),
                                     NewDoc(variant, devB, clock))
            /\ persisted' = persisted \cup {[name |-> NewName(variant, devB, clock),
                                                doc |-> NewDoc(variant, devB, clock)]}
            /\ clock' = [clock EXCEPT !.serial = @ + 1]

CaptureFrame ==
    UNCHANGED <<driver, chain, P, devA, full, marker_initial, resolver, vanished,
                variant, locked, present, fs, zip_files, idx, snapshot_file, phase, k,
                exit_code, installed, retry_count, history, failed_in>>

\* main: the version is read and the first snapshot taken
SnapMain ==
    /\ pc \in {"snap_idle", "snap_built", "snap_raised"}
    /\ runs < MaxRuns
    /\ runs' = runs + 1
    /\ CreateSnapshot("snap_package")
    /\ call_dir' = {}
    /\ baseline' = [snap |-> EmptyBase, stamp |-> 0]
    /\ UNCHANGED devB
    /\ CaptureFrame

\* create_update_package: its own snapshot of the current state
SnapPackage ==
    /\ pc = "snap_package"
    /\ call_dir' = snapshots
    /\ CreateSnapshot("snap_select")
    /\ UNCHANGED <<devB, runs, baseline>>
    /\ CaptureFrame

\* the documents the cli builder may diff against: the document of the new
\* version is the one just written and is passed over; the first document of
\* another version in the order of os.listdir is taken, which is any of them
CliBaselines(dir, new_version) ==
    IF \E e \in dir : e.name.version # new_version
    THEN {e.doc : e \in {x \in dir : x.name.version # new_version}}
    ELSE {[snap |-> EmptyBase, stamp |-> 0]}

\* the server builder asks: any listed document, or none; none in full mode
ServerBaselines(dir, isfull) ==
    {[snap |-> EmptyBase, stamp |-> 0]} \cup (IF isfull THEN {} ELSE {e.doc : e \in dir})

\* create_update_package: the snapshot to diff against is chosen
SnapSelect ==
    /\ pc = "snap_select"
    /\ baseline' \in (IF variant = "cli" THEN CliBaselines(snapshots, DevVersion(devB))
                      ELSE ServerBaselines(snapshots, full))
    /\ pc' = "snap_built"
    /\ UNCHANGED <<devB, runs, call_dir, snapshots, backups, persisted, clock>>
    /\ CaptureFrame

\* the build-machine trees of the capture runs
CaptureTrees ==
    {MkDev(Plain(v), d, NewContent, FALSE) : v \in Versions, d \in {"none", "dirf"}}
      \cup {t \in DocTrees : DevVersion(t) = 1}

\* between two runs the developer changes the tree
EditTree ==
    /\ pc \in {"snap_built", "snap_raised"}
    /\ runs < MaxRuns
    /\ devB' \in CaptureTrees \ {devB}
    /\ pc' = "snap_idle"
    /\ UNCHANGED <<runs, call_dir, baseline, snapshots, backups, persisted, clock>>
    /\ CaptureFrame

\* a second passes between two captures; the names of the cli builder's
\* documents carry no time
Tick ==
    /\ variant = "server"
    /\ pc \in {"snap_built", "snap_raised", "snap_package"}
    /\ clock.sec + 1 < MaxRuns
    /\ clock' = [clock EXCEPT !.sec = @ + 1]
    /\ UNCHANGED <<devB, pc, runs, call_dir, baseline, snapshots, backups, persisted>>
    /\ CaptureFrame

InitCapture ==
    /\ variant \in {"cli", "server"}
    /\ devB \in CaptureTrees
    /\ locked \in {{}, {PDF}, {PCfg}}
    /\ full \in BOOLEAN
    /\ pc = "snap_idle"
    /\ NoCapture
    /\ driver = "main" /\ chain = <<>> /\ zip_files = <<>> /\ present = {}
    /\ P = EmptyP /\ devA = NoTree /\ vanished = {}
    /\ fs = [l \in Locs |-> Absent]
    /\ NoResolver
    /\ InitCommon

NextCapture == SnapMain \/ SnapPackage \/ SnapSelect \/ EditTree \/ Tick

SpecCapture == InitCapture /\ [][NextCapture]_vars

\* -------------------------------------------------------------- properties
Built == pc # "build"

\* C1: after a failed apply the version marker file holds exactly what it held
\* before that apply started.
C1_FailedApplyKeepsMarker ==
    phase = "Failed" => fs[VERSION_FILE] = marker_before

\* C2: while a package made by the builder is applied, the version marker is
\* unchanged in every state of Deleting, Extracting, RecreatingDirs and
\* ReconcilingDependencies.
C2_MarkerUnchangedBeforeCommit ==
    (Built /\ pc = "apply" /\ phase \in FirstFour) => fs[VERSION_FILE] = marker_before

\* C3: an entry whose path has a '..' segment or resolves outside the
\* installation root is never written to disk.
C3_EscapingEntryNeverWritten ==
    \A n \in written : ~HasDotDot(n) /\ InsideRoot(Resolve(n))

\* the installation holds exactly the files, contents and directories of tree t
\* (the marker compared by the version it records)
SameTree(f, t) ==
    \A l \in Locs :
        InsideRoot(l) =>
            IF l = VERSION_FILE
            THEN IsFileAt(f, l) /\ MarkerValue(f) = MarkerValue(t)
            ELSE f[l] = InstallFrom(t)[l]

\* C4: the package built from the snapshots of trees A and B, applied to an
\* installation in the state of A, leaves the files (with the contents of B)
\* and the directories of B, and the marker holds the package's to_version.
C4_BuildApplyYieldsB ==
    (Built /\ ~full /\ variant \in {"cli", "qt"} /\ pc = "apply" /\ phase = "Done"
           /\ locked = {}) =>
        /\ SameTree(fs, devB)
        /\ MarkerValue(fs) = Pkg.to_version

\* C5: applying a package to the tree that applying it once has left gives the
\* same files, file contents, directories and version marker as applying it
\* once.
C5_ApplyTwiceSameTree ==
    (Len(results) >= 2 /\ results[1].ok /\ results[2].version = results[1].version
        /\ locked = {}) =>
        \A l \in Locs : InsideRoot(l) => results[2].fs[l] = results[1].fs[l]

PhaseOrder ==
    <<"Deleting", "Extracting", "RecreatingDirs", "ReconcilingDependencies",
      "CommittingVersion", "Done">>

Follows(a, b) == \E i \in 1..(Len(PhaseOrder) - 1) : PhaseOrder[i] = a /\ PhaseOrder[i + 1] = b

\* one step of an apply: the phase moves to the next of the fixed order once
\* every item of the phase is processed, or to Failed from a phase of
\* 'failing'; Failed and Done are left only when the driver takes over; an
\* entry is written only in Extracting and the marker is committed only in
\* CommittingVersion
PhaseStep(failing) ==
    /\ phase' # phase =>
          \/ /\ Follows(phase, phase')
             /\ phase' # "Done" => k > PhaseLen(variant, Pkg, phase)
          \/ phase' = "Failed" /\ phase \in failing
          \/ phase = "Idle" /\ phase' = "Deleting"
          \/ phase \in {"Done", "Failed"} /\ phase' = "Idle"
    /\ written' # written /\ written' # {} => phase = "Extracting"
    /\ phase' = "Done" /\ phase # "Done" => phase = "CommittingVersion"

\* C6 as stated: the phases run in the fixed order Deleting, Extracting,
\* RecreatingDirs, ReconcilingDependencies, CommittingVersion, Done; no entry
\* is extracted before every deletion is processed; the version is committed
\* after all earlier phases; Failed is terminal and entered only from the
\* first four phases.
C6_FailedFromFirstFourOnly == [][PhaseStep(FirstFour)]_vars

\* C6, amended: the same order, with Failed terminal and entered from any of
\* the five phases, CommittingVersion included (the write of the marker can
\* fail).
C6_PhaseOrder == [][PhaseStep(FirstFour \cup {"CommittingVersion"})]_vars

\* an apply that went through all four phases and failed writing the marker
C6_Witness == phase = "Failed" /\ failed_in = "CommittingVersion"

AllApplied == Len(results) = Len(zip_files) /\ \A i \in 1..Len(results) : results[i].ok

\* C7: the apply command applies the packages in the order given, applies
\* none after the first failure, and exits with status zero if and only if
\* every given package was applied successfully.
C7_MainExitStatus ==
    (driver \in {"main", "tk"} /\ zip_files # <<>>) =>
        /\ \A i \in 1..Len(started) : started[i] = zip_files[i]
        /\ \A i \in 1..(Len(results) - 1) : results[i].ok
        /\ exit_code # -1 => (exit_code = 0 <=> AllApplied)

DriverFinished ==
    \/ driver = "main" /\ pc = "exited"
    \/ pc \in {"start_server", "restart_updater", "qt_finished", "qt_gaveup", "qt_stalled"}

Succeeded == {i \in 1..Len(results) : results[i].ok}

LastSucceeded == results[CHOOSE i \in Succeeded : \A j \in Succeeded : j <= i].version

\* C8: when a chain driver has finished, the marker holds the to_version of
\* the last package whose apply succeeded, or what it held at the start if
\* none succeeded.
C8_MarkerNamesLastApplied ==
    DriverFinished =>
        IF Succeeded = {} THEN fs[VERSION_FILE] = marker_initial
        ELSE IsFileAt(fs, VERSION_FILE) /\ MarkerValue(fs) = LastSucceeded

\* the package has just been written and no apply has begun
JustBuilt == Built /\ started = <<>> /\ pc \in {"main", "qt_next"}

SharedPaths == Range(Keys(SnapA.files)) \cap Range(Keys(SnapB.files))

\* C9: in non-full mode the package lists as added the paths of the new
\* snapshot that the old one lacks, as modified the paths of both whose
\* checksums differ, as deleted the paths of the old snapshot that the new one
\* lacks; the three sets are pairwise disjoint and a path with the same
\* checksum in both snapshots is in none of them.
C9_DiffSets ==
    (JustBuilt /\ ~full) =>
        LET KA == Range(Keys(SnapA.files))
            KB == Range(Keys(SnapB.files))
            add == Range(P.added_files)
            mod == Range(P.modified_files)
            del == Range(P.deleted_files)
        IN  /\ add = KB \ KA
            /\ mod = {p \in SharedPaths : SumOf(SnapA.files, p) # SumOf(SnapB.files, p)}
            /\ del = KA \ KB
            /\ add \cap mod = {} /\ add \cap del = {} /\ mod \cap del = {}
            /\ \A p \in SharedPaths :
                  SumOf(SnapA.files, p) = SumOf(SnapB.files, p)
                      => p \notin add \cup mod \cup del

\* a non-full package with an added, a modified, a deleted and an unchanged path
C9_Witness ==
    /\ JustBuilt /\ ~full
    /\ P.added_files # <<>> /\ P.modified_files # <<>> /\ P.deleted_files # <<>>
    /\ \E p \in SharedPaths : SumOf(SnapA.files, p) = SumOf(SnapB.files, p)

\* C10: the diff of a snapshot with a snapshot of the same files and
\* directories has empty added_files, modified_files, deleted_files,
\* added_dirs and deleted_dirs.
C10_SelfDiffEmpty ==
    (JustBuilt /\ ~full /\ SnapA.files = SnapB.files
           /\ SnapA.directories = SnapB.directories) =>
        /\ P.added_files = <<>> /\ P.modified_files = <<>> /\ P.deleted_files = <<>>
        /\ P.added_dirs = <<>> /\ P.deleted_dirs = <<>>

\* a non-full package built of two equal snapshots that hold files and a directory
C10_Witness ==
    /\ JustBuilt /\ ~full
    /\ SnapA.files = SnapB.files /\ SnapA.directories = SnapB.directories
    /\ Len(SnapA.files) >= 2 /\ SnapA.directories # <<>>

\* C11: in full mode, or without an earlier snapshot, the package lists every
\* file of the new snapshot as added and every directory of it as an added
\* directory, and lists no modified file, deleted file or deleted directory.
C11_FullOrNoBaseline ==
    (JustBuilt /\ (full \/ devA = NoTree)) =>
        /\ P.added_files = Keys(SnapB.files)
        /\ Range(P.added_dirs) = Range(SnapB.directories)
        /\ Len(P.added_dirs) = Len(SnapB.directories)
        /\ P.modified_files = <<>> /\ P.deleted_files = <<>> /\ P.deleted_dirs = <<>>

\* a full package built over an earlier snapshot from which the plain diff
\* would have deleted a file and a directory and modified a file
C11_Witness ==
    /\ JustBuilt /\ full /\ devA # NoTree
    /\ Diff(SnapA, SnapB).deleted_files # <<>>
    /\ Diff(SnapA, SnapB).deleted_dirs # <<>>
    /\ Diff(SnapA, SnapB).modified_files # <<>>

\* the rules whose from_version is not above the version reached
Qualifying == {u \in Range(updates) : VersionLeq(u.fv, curr)}

\* C12: get_updates_chain walks greedily forward: a pass appends a rule whose
\* from_version is not above the version reached and whose to_version is the
\* greatest among such rules, and moves the version reached to it; the walk
\* ends exactly at the pass where no rule qualifies or that greatest
\* to_version does not exceed the version reached.
C12_GreedyWalk ==
    [][pc = "tk_chain" =>
        IF \E u \in Qualifying : ~VersionLeq(u.tv, curr)
        THEN /\ pc' = "tk_chain"
             /\ \E t \in Qualifying :
                    /\ \A u \in Qualifying : VersionLeq(u.tv, t.tv)
                    /\ chain' = Append(chain, t)
                    /\ curr' = t.tv
        ELSE pc' = "tk_chain_done" /\ chain' = chain /\ curr' = curr]_vars

C12_Witness ==
    /\ pc = "tk_chain_done" /\ Len(chain) = 2
    /\ \E u \in Range(updates) : ~VersionLeq(u.fv, current_version)
    /\ Qualifying # {}
\* C13: for the rules 1.0.0 -> 1.1.0, 1.1.0 -> 2.0.0 and 1.0.0 -> 1.5.0 and an
\* installation at 1.0.0 the chain returned is the single rule 1.0.0 -> 1.5.0:
\* nothing is selected once 1.5.0 is reached.
C13_ExampleChain ==
    (IsExample /\ pc = "tk_chain_done") =>
        chain = <<[fv |-> Dotted(<<1, 0, 0>>), tv |-> Dotted(<<1, 5, 0>>)]>>
\* the rules whose from_version is not above the version of the installation
QualifyingAtStart == {u \in Range(updates) : VersionLeq(u.fv, current_version)}

\* C14: get_updates_chain returns the empty chain exactly when no rule has a
\* from_version not above the current version, or every such rule has a
\* to_version not above the current version.
C14_EmptyChainIff ==
    pc = "tk_chain_done" =>
        (chain = <<>> <=>
            \/ QualifyingAtStart = {}
            \/ \A u \in QualifyingAtStart : VersionLeq(u.tv, current_version))

C14_Witness ==
    /\ pc = "tk_chain_done" /\ chain = <<>>
    /\ QualifyingAtStart # {}
    /\ \E u \in Range(updates) : ~VersionLeq(u.fv, current_version) /\ ~VersionLeq(u.tv, current_version)
IsTriple(v) == v \in KnownTexts

\* the triple a text was written from
TripleOf(v) == CHOOSE t \in KnownTriples : Dotted(t) = v

TripleLeq(a, b) ==
    \/ a[1] < b[1]
    \/ a[1] = b[1] /\ a[2] < b[2]
    \/ a[1] = b[1] /\ a[2] = b[2] /\ a[3] <= b[3]

\* the pairs of texts in the order of their integer components
NumOrder ==
    {<<Dotted(p[1]), Dotted(p[2])>> :
        p \in {q \in KnownTriples \X KnownTriples : TripleLeq(q[1], q[2])}}

\* the order of versions by their integer components
NumLeq(v, w) == <<v, w>> \in NumOrder

\* the version reached before the i-th rule of the chain was chosen
ReachedBefore(i) == IF i = 1 THEN current_version ELSE chain[i - 1].tv

\* C15: the candidate filter, the choice of the greatest to_version, the stop
\* test and the ordering behind the latest version all follow the order of the
\* integer components (1.10.0 above 1.9.0, 1.2.0 not above 1.10.0), never the
\* order of the texts.
C15_NumericOrder ==
    IsTriple(current_version) =>
        /\ \A i, j \in 1..Len(updates) : i < j => NumLeq(updates[i].tv, updates[j].tv)
        /\ (pc \notin {"tk_parse", "tk_latest"} /\ updates # <<>>) =>
                \A u \in Range(updates) : NumLeq(u.tv, latest_version)
        /\ \A i \in 1..Len(chain) :
                /\ NumLeq(chain[i].fv, ReachedBefore(i))
                /\ ~NumLeq(chain[i].tv, ReachedBefore(i))
                /\ \A u \in Range(updates) :
                        NumLeq(u.fv, ReachedBefore(i)) => NumLeq(u.tv, chain[i].tv)
        /\ pc = "tk_chain_done" =>
                \A u \in Range(updates) : NumLeq(u.fv, curr) => NumLeq(u.tv, curr)

C15_Witness ==
    /\ pc = "tk_chain_done" /\ IsTriple(current_version)
    /\ \E i \in 1..Len(chain) :
            ReachedBefore(i) = Dotted(<<1, 9, 0>>) /\ chain[i].tv = Dotted(<<1, 10, 0>>)
    /\ \E u \in Range(updates) : u.fv = Dotted(<<1, 2, 0>>)
    /\ latest_version = Dotted(<<1, 10, 0>>)
\* C16: while a package is applied, neither its metadata document nor the
\* snapshot document it carries is written into the installation, in a run
\* over several packages as well: the names left out are those of the package
\* being applied.
C16_ReservedNamesNotWritten ==
    started # <<>> =>
        /\ METADATA_NAME \notin written
        /\ SnapshotName(started[Len(started)]) \notin written
\* C17: in a package that was built no payload entry is named like the
\* metadata document or like the snapshot document the package carries,
\* whatever files the tree holds.
C17_PayloadAvoidsReservedNames ==
    JustBuilt =>
        \A i \in 1..Len(P.payload) :
            P.payload[i].name \notin {METADATA_NAME, SnapshotName(DevVersion(devB))}

C17_Witness ==
    /\ JustBuilt /\ P.payload # <<>>
    /\ IsFileAt(devB, METADATA_NAME)
    /\ IsFileAt(devB, SnapshotName(DevVersion(devB)))
\* the paths the package lists as added or modified
Listed == Range(P.added_files) \cup Range(P.modified_files)

PayloadNames == {P.payload[i].name : i \in 1..Len(P.payload)}

\* a file both snapshots hold with the same checksum
Unchanged(n) ==
    /\ HasKey(SnapA.files, n) /\ HasKey(SnapB.files, n)
    /\ SumOf(SnapA.files, n) = SumOf(SnapB.files, n)

\* C18: the payload of a built archive holds exactly the added and modified
\* paths that exist when the archive is written, each once: no deleted path,
\* and in a differential build no unchanged path; when no listed file has
\* vanished the payload paths are the added and the modified paths.
C18_PayloadIsListedAndPresent ==
    JustBuilt =>
        /\ PayloadNames = {n \in Listed : IsFileAt(AtArchiveTime, n)}
        /\ Len(P.payload) = Cardinality(PayloadNames)
        /\ PayloadNames \cap Range(P.deleted_files) = {}
        /\ (~full /\ devA # NoTree) => \A n \in PayloadNames : ~Unchanged(n)
        /\ vanished \cap Listed = {} => PayloadNames = Listed

C18_Witness ==
    /\ JustBuilt /\ ~full /\ devA # NoTree
    /\ vanished # {} /\ vanished \subseteq Listed
    /\ PayloadNames # {}
    /\ P.deleted_files # <<>>
    /\ \E n \in Locs : Unchanged(n)
\* C19: a dependency whose installation fails does not abort the apply: the
\* apply does not fail in the dependency phase because of it, and goes on to
\* the commit of the version.
C19_DependencyFailureDoesNotAbort ==
    pip_failed # {} => ~(phase = "Failed" /\ failed_in = "ReconcilingDependencies")
\* the path the deletion phase is about to remove
DeletionTarget == Resolve(DeletionList(Pkg)[k])

\* C20: a path of deleted_files or deleted_dirs that exists and is still there
\* when force_remove is through with it makes the apply fail: the apply does
\* not go on towards the commit of the version.
C20_UnremovablePathFails ==
    [][(/\ pc = "apply" /\ phase = "Deleting" /\ k <= Len(DeletionList(Pkg))
        /\ ExistsAt(fs, DeletionTarget)
        /\ ExistsAt(fs', DeletionTarget))
            => phase' = "Failed"]_vars
\* the paths a snapshot records
Recorded(snap) == Range(Keys(snap.files)) \cup Range(snap.directories)

C24_HiddenEntriesNotWritten == \A n \in written : ~IsHidden(n)
\* C25: the apply of a package begins only after the download of that package
\* has completed: the packages handed to the apply command and the package
\* being opened are downloaded ones, no apply has begun while the download
\* loop still runs, and no apply is under way while a package is downloaded.
C25_ApplyAfterDownload ==
    /\ driver = "tk" => /\ Range(zip_files) \subseteq present
                        /\ Range(started) \subseteq present
                        /\ pc = "tk_download" => started = <<>>
    /\ driver = "qt" => /\ pc = "apply" => Cur \in present
                        /\ pc \in {"qt_downloading", "qt_stalled"} => phase = "Idle"

C25_Witness ==
    /\ driver = "tk" /\ started # <<>>
    /\ Len(zip_files) < Len(chain)
    /\ phase = "Deleting"
\* the number of applies of version v that have begun
Attempts(v) == Cardinality({i \in 1..Len(started) : started[i] = v})

\* C26: the Qt driver attempts a package at most max_retries + 1 = 3 times,
\* downloads the package anew before every retry, and gives up after the
\* third failed attempt: no later package of the chain is downloaded or
\* applied.
C26_QtBoundedRetries ==
    driver = "qt" =>
        /\ \A v \in Range(zip_files) : Attempts(v) <= max_retries + 1
        /\ pc = "qt_downloading" => Cur \notin present
        /\ pc = "qt_gaveup" =>
                /\ Attempts(Cur) = max_retries + 1
                /\ \A j \in (idx + 1)..Len(zip_files) : Attempts(zip_files[j]) = 0
                /\ \A i \in (Len(results) - max_retries)..Len(results) :
                        results[i].version = Cur /\ ~results[i].ok

C26_Witness ==
    /\ driver = "qt" /\ pc = "qt_gaveup"
    /\ idx < Len(zip_files)
    /\ Len(results) = max_retries + 1
\* C27: the from_version of a built package is the wildcard (version 0 of the
\* model, written 'any' in the metadata) exactly when no baseline snapshot was
\* used for the change set, that is without an earlier snapshot or in full
\* mode; otherwise it is the version of the baseline snapshot.
C27_FromVersionWildcard ==
    JustBuilt =>
        /\ P.from_version = 0 <=> (devA = NoTree \/ full)
        /\ P.from_version # 0 => P.from_version = DevVersion(devA)
\* C28: in a differential build added_dirs is the set of directories of the
\* new snapshot that the old one lacks and deleted_dirs the set of directories
\* of the old snapshot that the new one lacks; the two are disjoint and a
\* directory of both snapshots is in neither.
C28_DirectoryDifferences ==
    (JustBuilt /\ ~full) =>
        /\ Range(P.added_dirs) = Range(SnapB.directories) \ Range(SnapA.directories)
        /\ Range(P.deleted_dirs) = Range(SnapA.directories) \ Range(SnapB.directories)
        /\ Range(P.added_dirs) \cap Range(P.deleted_dirs) = {}
        /\ \A d \in Range(SnapA.directories) \cap Range(SnapB.directories) :
                d \notin Range(P.added_dirs) \cup Range(P.deleted_dirs)
        /\ NoRepeat(P.added_dirs) /\ NoRepeat(P.deleted_dirs)

C28_Witness ==
    /\ JustBuilt /\ ~full
    /\ P.added_dirs = <<PE>> /\ P.deleted_dirs = <<PD>>

C28_WitnessShared ==
    /\ JustBuilt /\ ~full
    /\ P.added_dirs = <<PE>> /\ PD \in Range(SnapA.directories) \cap Range(SnapB.directories)
\* C30: force_remove takes away nothing but the path it is given and, for a
\* directory, what lies beneath it: every other entry of the file system is
\* still there when the deletion of a listed path is through, also when the
\* first attempt to remove a file failed and the retry ran.
C30_ForceRemoveFrame ==
    [][(pc = "apply" /\ phase = "Deleting" /\ k <= Len(DeletionList(Pkg))) =>
          \A l \in Locs :
              (~IsPrefix(DeletionTarget, l) /\ fs[l] # Absent) => fs'[l] # Absent]_vars
\* ---------------------------------------------------------- captures, builds
NoBaseline == [snap |-> EmptyBase, stamp |-> 0]

\* C21: after any sequence of captures the content of every document an
\* earlier capture persisted is still there, under its original name in the
\* snapshot directory or as a copy in the backup directory.
C21_PersistedContentKept ==
    \A e \in persisted : e \in snapshots \/ (\E b \in backups : b.doc = e.doc)

\* C22: when the hash of a file that is not excluded fails during a capture,
\* create_snapshot raises and the snapshot directory is as it was before the
\* call: no new document, no partly written document.
C22_FailedCaptureLeavesDirectory ==
    [][(HashRaises(devB, locked) /\ (runs' # runs \/ (pc = "snap_package" /\ pc' # pc)))
        => (pc' = "snap_raised" /\ snapshots' = snapshots /\ backups' = backups)]_vars

C22_Witness ==
    /\ pc = "snap_raised"
    /\ snapshots # {}
    /\ HashRaises(devB, locked)

\* C29: the cli builder's create_update_package diffs against the snapshot
\* that the previous build of the same version persisted whenever one was
\* there before the call, and against a snapshot of another version only when
\* none was.
C29_SameVersionBaselinePreferred ==
    (variant = "cli" /\ pc = "snap_built")
      => LET nv == DevVersion(devB)
             same == {e \in call_dir : e.name.version = nv}
         IN  IF same # {}
             THEN \E e \in same : baseline = e.doc
             ELSE baseline = NoBaseline \/ baseline.snap.version # nv

\* --------------------------------------------------- the root, the resolver
\* C31: no step of an apply creates, removes or overwrites a path outside the
\* installation root, whatever the package holds.
C31_OutsideRootUntouched ==
    [][\A l \in Locs : IsOutside(l) => fs'[l] = fs[l]]_vars

\* C32: in every chain get_updates_chain returns, the from_version of the
\* first rule is the current version and the from_version of every later rule
\* is the to_version of the rule before it.
C32_ChainContinuity ==
    pc = "tk_chain_done" =>
        /\ chain # <<>> => chain[1].fv = current_version
        /\ \A i \in 1..(Len(chain) - 1) : chain[i + 1].fv = chain[i].tv

\* the versions some sequence of rules leads to, each rule starting from a
\* version not above the one reached before it
RECURSIVE ReachFrom(_)
ReachFrom(S) ==
    LET T == S \cup {u.tv : u \in {r \in Range(updates) : \E v \in S : VersionLeq(r.fv, v)}}
    IN  IF T = S THEN S ELSE ReachFrom(T)

Reachable == ReachFrom({current_version})

\* C33: the to_version of the last rule of the chain returned is the greatest
\* version any admissible sequence of rules leads to from the current version.
C33_ChainEndsAtGreatestReachable ==
    (pc = "tk_chain_done" /\ chain # <<>>) =>
        LET reached == Reachable
        IN  /\ chain[Len(chain)].tv \in reached
            /\ \A v \in reached : VersionLeq(v, chain[Len(chain)].tv)

C33_Witness ==
    /\ pc = "tk_chain_done" /\ Len(chain) = 2
    /\ \E v \in Reachable :
            /\ v # current_version
            /\ \A i \in 1..Len(chain) : chain[i].tv # v
    /\ \E u \in Range(updates) : u \notin Range(chain) /\ VersionLeq(u.fv, current_version)
                                   /\ ~VersionLeq(u.tv, current_version)

ToVersions == {u.tv : u \in Range(updates)}

ChainRises ==
    /\ \A i \in 1..Len(chain) : ~VersionLeq(chain[i].tv, current_version)
    /\ \A i \in 1..(Len(chain) - 1) : ~VersionLeq(chain[i + 1].tv, chain[i].tv)
    /\ Len(chain) <= Cardinality(ToVersions)

\* C34: get_updates_chain terminates for every list of rules and every
\* current version; the to_versions along the chain rise strictly, each is
\* above the current version, and the chain is no longer than the number of
\* distinct to_versions of the list.
C34_WalkTerminates ==
    /\ (pc = "tk_chain") ~> (pc = "tk_chain_done")
    /\ [](pc \in {"tk_chain", "tk_chain_done"} => ChainRises)

C34_Witness ==
    /\ pc = "tk_chain_done"
    /\ Len(chain) = 2
    /\ Cardinality(ToVersions) = 2
    /\ Len(updates) = 3

\* C35: the packages auto_update hands to the apply command are a prefix of
\* the resolved chain, in the order of the chain, whichever downloads fail.
C35_AppliedIsChainPrefix ==
    (driver = "tk" /\ pc = "main") =>
        (Len(zip_files) <= Len(chain) /\ zip_files = SubSeq(chain, 1, Len(zip_files)))

\* ------------------------------------------------- claims: the path check
SomePathMissing == zip_files # <<>> /\ ~AllPresent(zip_files)

\* C38: if any package path given to main does not exist, main exits non-zero
\* before the first Deleting phase: no apply begins, the tree and the version
\* marker stay as they were, even when earlier paths of the list exist.
C38_MissingPathAppliesNothing ==
    [][(pc = "main" /\ SomePathMissing) =>
          /\ pc' = "exited" /\ exit_code' > 0
          /\ fs' = fs /\ started' = started /\ phase' = "Idle"]_vars

C38_Witness ==
    /\ pc = "exited" /\ driver = "main" /\ exit_code = 1
    /\ Len(zip_files) = 2 /\ zip_files[1] \in present /\ zip_files[2] \notin present
    /\ started = <<>> /\ fs[VERSION_FILE] = marker_initial

\* ------------------------------------------- claims: handing control back
\* what a step of an updater does to its position, to the phase of the apply
\* and to the chain: the thread of auto_update, the worker and download
\* threads and the apply in on_zip_downloaded are running
UpdaterStep ==
    /\ pc \in {"tk_parse", "tk_latest", "tk_chain", "tk_chain_done",
               "qt_check", "qt_next", "qt_downloading", "apply"}
    /\ pc' \in {"tk_latest", "tk_chain", "tk_chain_done", "start_server", "tk_have_chain",
                "qt_check_error", "qt_no_updates", "qt_next", "qt_downloading",
                "qt_stalled", "apply", "qt_finished", "qt_gaveup"}
    /\ phase' \in Range(PhaseOrder) \cup {"Idle", "Failed"}
    /\ k' \in {1, k, k + 1}
    /\ chain' \in {chain} \cup {Append(chain, u) : u \in Range(updates)}

\* a thread that runs takes its next step; a widget that waits for a signal
\* no thread will send stays as it is
SpecFeedLive == InitFeed /\ [][NextFeed]_vars /\ WF_<<pc, phase, k, chain>>(UpdaterStep)

\* state.wait is False again, or exit() was called
WaitOver == pc \in {"qt_no_updates", "qt_finished", "qt_gaveup"}

\* C36: every run of an updater eventually hands control back to the host
\* application: the Tk thread leaves the resolver with start_server_and_exit
\* scheduled or with the chain whose packages it goes on to download, and in
\* the Qt widget, after showEvent, state.wait is eventually False on every
\* outcome (check error, no updates, download failure, permanent apply
\* failure, completed chain).
C36_ControlHandedBack ==
    /\ (pc = "tk_parse") ~> (pc \in {"start_server", "tk_have_chain"})
    /\ (pc = "qt_check") ~> WaitOver

\* ------------------------------------------- claims: the Qt pending list
\* the version the marker named when the widget was shown
MarkerAtStart == IF marker_initial = Absent THEN 0 ELSE Strip(marker_initial[2])

\* the versions the feed offers with a valid link
OfferedVersions ==
    {IntOf(e.key) : e \in {x \in Range(version_map) : ~IntRaises(x.key) /\ x.link = "http"}}

PendingListed == driver = "qt" /\ pc \notin {"qt_check", "qt_check_error"}

\* C37: in the Qt updater the pending list holds exactly the feed versions
\* above the current version that have a valid link, in strictly ascending
\* order; the index advances by one, and only after the package at the index
\* was applied and its version committed; packages are applied in ascending
\* order and, whenever the index is k > 0, the marker holds the version of
\* pending update k - 1.
C37_PendingListAndIndex ==
    /\ [](PendingListed =>
            /\ Range(zip_files) = {v \in OfferedVersions : v > MarkerAtStart}
            /\ StrictlyUp(zip_files)
            /\ \A i, j \in 1..Len(started) : i < j => started[i] <= started[j]
            /\ idx > 1 => /\ IsFileAt(fs, VERSION_FILE)
                          /\ MarkerValue(fs) = zip_files[idx - 1])
    /\ [][(driver = "qt" /\ idx' # idx) =>
            /\ idx' = idx + 1
            /\ phase = "Done"
            /\ fs[VERSION_FILE] = File(MarkerText("qt", Cur))]_vars

\* ------------------------------------------- claims: malformed feed entries
RECURSIVE get_updates_chain(_, _)
\* get_updates_chain as a function of the rules and the current version
get_updates_chain(us, c) ==
    IF WalkStops(us, c) THEN <<>>
    ELSE LET best == MaxByTo(Candidates(us, c))
         IN  <<best>> \o get_updates_chain(us, best.tv)

\* a line 'x.y.z -> x.y.z, url'
WellFormedLine(p) == p.fv \in KnownTexts /\ p.tv \in KnownTexts

\* an item with an integer key and an http link
WellFormedItem(e) == e.key \in {<<"1">>, <<"2">>, <<"0", "1">>} /\ e.link = "http"

RulesOfWellFormed == parse_versions_docx(SelectSeq(paragraphs, WellFormedLine))

\* C39: a malformed entry of the feed (a line not matching
\* 'x.y.z -> x.y.z, url' in the Tk variant; a non-integer key or a missing or
\* non-http link in the Qt variant) is skipped and resolution continues: the
\* parsed rules, the resolved chain and the pending list are what they would
\* be if the malformed entries were absent from the feed.
C39_MalformedEntriesSkipped ==
    /\ (driver = "tk" /\ pc # "tk_parse") => updates = RulesOfWellFormed
    /\ (driver = "tk" /\ pc \in {"tk_chain_done", "tk_have_chain"}) =>
          chain = get_updates_chain(RulesOfWellFormed, current_version)
    /\ PendingListed =>
          zip_files = available_versions(SelectSeq(version_map, WellFormedItem), MarkerAtStart)

C39_Witness ==
    /\ pc = "tk_have_chain" /\ Len(chain) = 2
    /\ \E i \in 1..Len(paragraphs) : ~WellFormedLine(paragraphs[i])

====
